---- MODULE Spec2Model ----
(***************************************************************************)
(* Flight computer of rust-rocket (src/src/main.rs): the sampling loop of  *)
(* main, the command thread it spawns, and the transport thread of         *)
(* Datalink::new (src/src/datalink.rs), with the telemetry codec of        *)
(* src/src/telemetry.rs, the receive callback of the ground station that   *)
(* decodes it (src/src/bin/basestation.rs) and the filter of the pressure  *)
(* (src/src/altimeter.rs).                                                 *)
(*                                                                         *)
(* Atomicity follows the mutexes of the code: a step of a thread is one    *)
(* critical section (or one channel operation).  The sampling loop keeps   *)
(* the State guard from line 215 to the end of the iteration, so the lock  *)
(* of State is a variable; the lock of the recording is taken and released *)
(* inside single steps.                                                    *)
(*                                                                         *)
(* Text is a sequence of one-character strings; BAD stands for a byte that *)
(* is not valid UTF-8.  An f32 is its IEEE-754 bit pattern (a u32).  An    *)
(* f64 is an integer in the unit of its quantity.                          *)
(***************************************************************************)
EXTENDS Integers, Sequences, FiniteSets, TLC

VARIABLES
    state,              \* main.rs:55   Mutex<State>: telemetry_addr, streaming
    stateLock,          \* the State mutex: "free", "main" (held), "poisoned"
    recording,          \* main.rs:95   Mutex<Vec<Telemetry>>
    stats,              \* altimeter.rs:86 Mutex<AltimeterStats> (altitude, temperature)
    sea_level_pressure, \* altimeter.rs:87
    buzzer,             \* buzzer.rs:37 BuzzerState (once, playing)
    command_queue,      \* datalink.rs:69 channel recv callback -> command thread
    data_queue,         \* datalink.rs:71 channel -> transport thread
    cmdPc,              \* position of the command thread
    mac_arr,            \* main.rs:105  sender of the command being processed
    data,               \* main.rs:107  text of the command being processed
    num,                \* main.rs:145  parsed index of re_tx
    cmdTelemetry,       \* main.rs:148  clone of the record looked up by re_tx
    mainPc,             \* position of the sampling loop
    snapshot,           \* main.rs:214  clone of the altimeter stats
    pushed,             \* main.rs:226  value of the push block
    telemetry,          \* main.rs:223  record built by the current cycle
    peer_addr,          \* main.rs:218  destination copied from State
    clock,              \* main.rs:203  milliseconds since start
    peers,              \* datalink.rs:88 peers registered with ESP-NOW
    txPc,               \* the transport thread: "run", "panicked", "exit"
    sessionPushes,      \* history: pushes since the last clear by "ton"
    prevLen,            \* history: length of the recording the last "ton" cleared
    lastPush,           \* history: the clock of the last push since that clear
    lastTon,            \* history: the sender of the last "ton" processed
    sendFailed,         \* history: a radio send failed since the last "ton"
    encRecord,          \* telemetry.rs:36 the record as_bytes is called on
    encBuffer,          \* telemetry.rs:36 the caller's buffer before the call
    bsPc,               \* position of the receive callback of the ground station
    bsData,             \* basestation.rs:407 the payload the callback received
    bsTelemetry,        \* basestation.rs:410 the record the callback decoded
    kalman,             \* altimeter.rs:14 a KalmanState fed a constant stream
    stream,             \* the measurement z_n of that stream
    clients,            \* basestation.rs:57 Mutex<Vec<ClientConnection>>
    added,              \* the number of calls of add_client so far
    bzPc,               \* position of the buzzer thread
    bzLocals,           \* buzzer.rs:87 (playing, once) read by the thread
    plays,              \* the number of times the pattern was played
    tonePc,             \* position of the command thread in the tone branch
    tones,              \* the number of "tone" commands processed so far
    touch_state,        \* ui.rs:28    TouchState of the Ui
    elements,           \* ui.rs:26    the buttons of the Ui
    dirty_all,          \* ui.rs:31
    clear_flag,         \* basestation.rs:269 set by the CLR button
    touches,            \* the number of touch samples handled so far
    locks,              \* the holder of each of the four mutexes
    lockPc              \* the next lock operation of each thread

vars == <<state, stateLock, recording, stats, sea_level_pressure, buzzer,
          command_queue, data_queue, cmdPc, mac_arr, data, num, cmdTelemetry,
          mainPc, snapshot, pushed, telemetry, peer_addr, clock, peers, txPc,
          sessionPushes, prevLen, lastPush, lastTon, sendFailed,
          encRecord, encBuffer, bsPc, bsData, bsTelemetry, kalman, stream,
          clients, added, bzPc, bzLocals, plays, tonePc, tones,
          touch_state, elements, dirty_all, clear_flag, touches, locks, lockPc>>

----------------------------------------------------------------------------
(* Bounds of the model *)

\* capacity of the recording; stands for Vec::with_capacity(900), main.rs:95
Capacity == 2
\* sampling cycles explored
MaxCycles == 3
\* messages waiting in data_queue
MaxOutbound == 1
\* updates of the filter on one stream
MaxSamples == 12
\* messages waiting in data_queue when the transport is followed alone
MaxBacklog == 3

\* "tone" commands the command thread processes
MaxTones == 2

\* times the buzzer thread plays the pattern
MaxPlays == 4

\* calls of add_client: the draw loop and the websocket connections
MaxClients == 3

\* records a client has been sent and not yet taken
MaxInbox == 1

\* touch samples the screen loop handles
MaxTouches == 4

(* Program constants *)

\* altimeter.rs:154 sleep of update_stats, in ms
SleepMs == 200
\* main.rs:146, main.rs:236 length of the send buffer
BufferLen == 33
\* telemetry.rs:37 size_of::<Telemetry>(), the length of an encoded record
RecordLen == 16
\* altimeter.rs:121 initial sea level pressure
InitialSeaLevel == 102030

\* Option<T>: None, or Some(x)
None == <<>>
Some(x) == <<x>>
\* [0u8; 6]
ZeroMac == "00:00:00:00:00:00"
BAD == "\\xFF"
Err == -1

\* An f64 is modelled by an integer (Pa, degrees C, feet), with named values
\* for the ones that are not: f64::MAX, f64::MIN, the infinities and NaN.
F64_MAX == 2000000000
F64_MIN == -2000000000
INFINITY == 2000000001
NEG_INFINITY == -2000000001
NAN == 2000000002

----------------------------------------------------------------------------
(* Text: starts_with, trim, split, parse *)

Min(S) == CHOOSE x \in S : \A y \in S : x <= y

\* String::from_utf8: fails on a byte sequence that is not UTF-8
from_utf8(bytes) ==
    IF \E i \in 1..Len(bytes) : bytes[i] = BAD THEN None ELSE Some(bytes)

\* str::starts_with
starts_with(s, prefix) ==
    /\ Len(s) >= Len(prefix)
    /\ SubSeq(s, 1, Len(prefix)) = prefix

IsSpace(c) == c \in {" ", "\n"}

RECURSIVE TrimStart(_)
TrimStart(s) ==
    IF s # <<>> /\ IsSpace(Head(s)) THEN TrimStart(Tail(s)) ELSE s

RECURSIVE TrimEnd(_)
TrimEnd(s) ==
    IF s # <<>> /\ IsSpace(s[Len(s)]) THEN TrimEnd(SubSeq(s, 1, Len(s) - 1)) ELSE s

\* str::trim
trim(s) == TrimEnd(TrimStart(s))

RECURSIVE SplitFrom(_, _, _)
SplitFrom(s, sep, cur) ==
    IF s = <<>> THEN <<cur>>
    ELSE IF Head(s) = sep THEN <<cur>> \o SplitFrom(Tail(s), sep, <<>>)
    ELSE SplitFrom(Tail(s), sep, Append(cur, Head(s)))

\* str::split(' '): the pieces between separators, empty pieces included
split(s, sep) == SplitFrom(s, sep, <<>>)

Digits == <<"0", "1", "2", "3", "4", "5", "6", "7", "8", "9">>

DigitVal(c) == (CHOOSE i \in 1..10 : Digits[i] = c) - 1

IsDigit(c) == \E i \in 1..10 : Digits[i] = c

RECURSIVE DigitsVal(_, _)
DigitsVal(s, acc) ==
    IF s = <<>> THEN acc ELSE DigitsVal(Tail(s), acc * 10 + DigitVal(Head(s)))

\* str::parse::<usize>: an optional '+', then one or more decimal digits
parse_usize(s) ==
    LET body == IF s # <<>> /\ Head(s) = "+" THEN Tail(s) ELSE s
    IN  IF body # <<>> /\ \A i \in 1..Len(body) : IsDigit(body[i])
        THEN DigitsVal(body, 0)
        ELSE Err

\* str::parse::<f64>, on the texts the model sends: "nan", or an optional
\* sign and decimal digits; Ok(v) is Some(v) and Err is None
parse_f64(s) ==
    LET neg  == s # <<>> /\ Head(s) = "-"
        body == IF s # <<>> /\ Head(s) \in {"+", "-"} THEN Tail(s) ELSE s
    IN  IF s = <<"n", "a", "n">> THEN Some(NAN)
        ELSE IF body # <<>> /\ \A i \in 1..Len(body) : IsDigit(body[i])
        THEN Some(IF neg THEN 0 - DigitsVal(body, 0) ELSE DigitsVal(body, 0))
        ELSE None

----------------------------------------------------------------------------
(* The commands the ground station sends in the model *)

T_tone  == <<"t", "o", "n", "e">>
T_ton   == <<"t", "o", "n">>
T_toff  == <<"t", "o", "f", "f">>
T_re_tx == <<"r", "e", "_", "t", "x">>
T_inhg  == <<"i", "n", "h", "g">>
T_reset == <<"r", "e", "s", "e", "t">>

\* streaming commands, well formed and not
StreamTexts ==
    { T_ton, T_tone, T_toff,
      T_re_tx \o <<" ", "0">>,
      T_re_tx \o <<" ", "1", "\n">>,
      T_re_tx \o <<" ", "+", "2">>,
      T_re_tx,
      T_re_tx \o <<" ", "x">>,
      <<"T", "O", "N">>,
      <<"t", BAD>> }

\* altimeter commands
AltimeterTexts ==
    { T_reset,
      T_inhg \o <<" ", "1", "0", "0", "0", "0", "0">>,
      T_inhg \o <<" ", "-", "1">>,
      T_inhg,
      T_inhg \o <<" ", "x">> }

\* the messages the receive callback delivers: (sender, bytes)
StreamInbound ==
    {<<"mac1", t>> : t \in StreamTexts} \cup {<<"mac2", T_ton>>}

AltimeterInbound == {<<"mac1", t>> : t \in AltimeterTexts}

\* one well-formed command of each kind
CommandTexts ==
    { T_ton, T_toff, T_tone, T_reset,
      T_re_tx \o <<" ", "0">>,
      T_inhg \o <<" ", "1", "0", "0", "0", "0", "0">> }

CommandInbound == {<<"mac1", t>> : t \in CommandTexts}

\* the messages the command thread drops, with a "ton" and an "inhg" that
\* give them a session and a reference pressure to leave alone
MalformedTexts ==
    { T_re_tx,
      T_re_tx \o <<" ", "x">>,
      T_inhg,
      T_inhg \o <<" ", "x">>,
      <<"t", BAD>> }

MalformedInbound ==
    {<<"mac1", t>> : t \in MalformedTexts}
        \cup {<<"mac1", T_ton>>, <<"mac1", T_inhg \o <<" ", "1", "0", "0", "0", "0", "0">>>>}

\* texts that start with none of the prefixes of the if-chain, with a "ton"
\* that gives them a session to leave alone
InertTexts ==
    { <<"T", "O", "N">>,
      <<" ", "t", "o", "n">>,
      <<"t", "o">>,
      <<"R", "e", "s", "e", "t">>,
      <<"x", "t", "o", "n", "e">>,
      <<>> }

InertInbound == {<<"mac2", t>> : t \in InertTexts} \cup {<<"mac1", T_ton>>}

\* two ground stations start a session, and one asks for a retransmission
PeerInbound ==
    { <<"mac1", T_ton>>, <<"mac2", T_ton>>, <<"mac2", T_re_tx \o <<" ", "0">>>> }

----------------------------------------------------------------------------
(* Telemetry and its codec, telemetry.rs *)

\* A u32, and the bit pattern of an f32, is a pair of 16-bit halves <<hi, lo>>;
\* a time in milliseconds (u128) is a pair <<hi, lo>> with lo < 65536 and hi
\* unbounded.
Half == 65536

U32Zero == <<0, 0>>

\* ms + d, for 0 <= d < Half
AddMs(ms, d) == <<ms[1] + ((ms[2] + d) \div Half), (ms[2] + d) % Half>>

\* a <= b on times, and on u32 values
LeqMs(a, b) == a[1] < b[1] \/ (a[1] = b[1] /\ a[2] <= b[2])

\* "as u32" of a u128: its low 32 bits
AsU32(ms) == <<ms[1] % Half, ms[2]>>

RECURSIVE Pow2(_)
Pow2(k) == IF k = 0 THEN 1 ELSE 2 * Pow2(k - 1)

RECURSIVE Log2(_)
Log2(n) == IF n < 2 THEN 0 ELSE 1 + Log2(n \div 2)

\* the bit pattern of an f32 from its sign, biased exponent and mantissa
F32Bits(sign, exp, mant) ==
    <<(sign * 32768) + (exp * 128) + (mant \div Half), mant % Half>>

\* "as f32" of an f64: exact for an integer below 2^24, infinite beyond the
\* range of f32
AsF32(x) ==
    IF x = NAN THEN F32Bits(0, 255, 4194304)
    ELSE IF x >= F64_MAX THEN F32Bits(0, 255, 0)
    ELSE IF x <= F64_MIN THEN F32Bits(1, 255, 0)
    ELSE IF x = 0 THEN U32Zero
    ELSE LET m == IF x < 0 THEN 0 - x ELSE x
             e == Log2(m)
         IN  F32Bits(IF x < 0 THEN 1 ELSE 0, e + 127, (m - Pow2(e)) * Pow2(23 - e))

\* impl From<(AltimeterStats, BatteryStats)> for Telemetry
TelemetryFrom(s, b) ==
    [ time            |-> U32Zero,
      altitude        |-> AsF32(s.altitude),
      temperature     |-> AsF32(s.temperature),
      battery_voltage |-> b.voltage ]

\* a writer that puts the most significant byte first
put_u32_be(x) ==
    << x[1] \div 256, x[1] % 256, x[2] \div 256, x[2] % 256 >>

\* BufMut::put_u32_le / put_f32_le: four bytes, least significant first
put_u32_le(x) ==
    << x[2] % 256, x[2] \div 256, x[1] % 256, x[1] \div 256 >>

\* a reader that takes the most significant byte first
get_u32_be(b, off) ==
    << (256 * b[off + 1]) + b[off + 2], (256 * b[off + 3]) + b[off + 4] >>

\* Buf::get_u32_le / get_f32_le at offset off (0-based)
get_u32_le(b, off) ==
    << b[off + 3] + (256 * b[off + 4]), b[off + 1] + (256 * b[off + 2]) >>

\* an encoder that writes the temperature before the altitude
as_bytes_FieldsSwapped(self, buffer) ==
    LET buf == put_u32_le(self.time) \o put_u32_le(self.temperature)
               \o put_u32_le(self.altitude) \o put_u32_le(self.battery_voltage)
    IN  buf \o SubSeq(buffer, Len(buf) + 1, Len(buffer))

\* Telemetry::as_bytes: the 16 encoded bytes over the head of buffer
as_bytes(self, buffer) ==
    LET buf == put_u32_le(self.time) \o put_u32_le(self.altitude)
               \o put_u32_le(self.temperature) \o put_u32_le(self.battery_voltage)
    IN  buf \o SubSeq(buffer, Len(buf) + 1, Len(buffer))

\* a decoder that reads the last 16 bytes of the buffer
from_bytes_FromEnd(buffer) ==
    [ time            |-> get_u32_le(buffer, Len(buffer) - 16),
      altitude        |-> get_u32_le(buffer, Len(buffer) - 12),
      temperature     |-> get_u32_le(buffer, Len(buffer) - 8),
      battery_voltage |-> get_u32_le(buffer, Len(buffer) - 4) ]

\* Telemetry::from_bytes, on a buffer of at least 16 bytes
from_bytes(buffer) ==
    [ time            |-> get_u32_le(buffer, 0),
      altitude        |-> get_u32_le(buffer, 4),
      temperature     |-> get_u32_le(buffer, 8),
      battery_voltage |-> get_u32_le(buffer, 12) ]

\* [0u8; 33]
ZeroBuffer == [i \in 1..BufferLen |-> 0]

\* Buf::get_u32_le panics when fewer than 4 bytes remain: from_bytes panics
\* on a buffer that is shorter than a record
Underflows(buffer) == Len(buffer) < RecordLen

\* the records the codec is applied to
CodecRecords ==
    [ time            : {U32Zero, <<1, 2>>, <<Half - 1, Half - 600>>},
      altitude        : {AsF32(0), AsF32(555), AsF32(-557), AsF32(NAN)},
      temperature     : {AsF32(25), AsF32(-20)},
      battery_voltage : {AsF32(4)} ]

\* the buffers a record is encoded into: the [0u8; 33] of main.rs, and
\* buffers of 33, 17 and 16 bytes that hold other bytes
CodecBuffers ==
    { ZeroBuffer,
      [i \in 1..BufferLen |-> 255 - i],
      [i \in 1..(RecordLen + 1) |-> 7],
      [i \in 1..RecordLen |-> i] }

\* frames that are shorter than a record
ShortFrames ==
    { <<>>, <<1, 2, 3>>, <<1, 2, 3, 4>>, [i \in 1..(RecordLen - 1) |-> i] }

----------------------------------------------------------------------------
(* The clients of the ground station, basestation.rs:52-73: a client is    *)
(* the sender of a channel; connected tells whether its receiver lives,    *)
(* inbox is what the receiver has not taken yet.                           *)

\* the records whose frames reach the ground station while it has clients
FanOutRecords ==
    { [time |-> U32Zero, altitude |-> AsF32(0), temperature |-> AsF32(25),
       battery_voltage |-> AsF32(4)],
      [time |-> <<1, 2>>, altitude |-> AsF32(555), temperature |-> AsF32(25),
       battery_voltage |-> AsF32(4)] }

\* Vec::remove(i), with the first element at 1
VecRemove(v, i) == SubSeq(v, 1, i - 1) \o SubSeq(v, i + 1, Len(v))

RECURSIVE FanOut_SkipsAfterRemove(_, _, _)
\* a pass that moves on after a removal as it does after a send
FanOut_SkipsAfterRemove(guard, i, t) ==
    IF i > Len(guard) THEN guard
    ELSE IF ~guard[i].connected
         THEN FanOut_SkipsAfterRemove(VecRemove(guard, i), i + 1, t)
         ELSE FanOut_SkipsAfterRemove(
                  [guard EXCEPT ![i].inbox = Append(@, t)], i + 1, t)

RECURSIVE FanOut(_, _, _)
\* basestation.rs:415-429 the pass over the clients from index i: send is
\* Err when the receiver is gone, and the client is removed; i moves on
\* only after a send that worked
FanOut(guard, i, t) ==
    IF i > Len(guard) THEN guard
    ELSE IF ~guard[i].connected
         THEN FanOut(VecRemove(guard, i), i, t)
         ELSE FanOut([guard EXCEPT ![i].inbox = Append(@, t)], i + 1, t)

----------------------------------------------------------------------------
(* The recording: Vec<Telemetry> *)

\* a clear that keeps the oldest record
VecClear_KeepsFirst(v) == IF v = <<>> THEN v ELSE <<Head(v)>>

\* Vec::clear
VecClear(v) == <<>>

\* a lookup that wraps around the end
VecGet_Wraps(v, i) == IF v # <<>> THEN Some(v[(i % Len(v)) + 1]) ELSE None

\* Vec::get, 0-based
VecGet(v, i) == IF i < Len(v) THEN Some(v[i + 1]) ELSE None

\* a guard that admits one record too many
HasRoom_OffByOne(v) == Len(v) <= Capacity

\* main.rs:229 the guard of the push
HasRoom(v) == Len(v) < Capacity

\* a push at the front
TryPush_Prepends(v, t) == IF HasRoom(v) THEN <<t>> \o v ELSE v

\* main.rs:226-235 push when there is room
TryPush(v, t) == IF HasRoom(v) THEN Append(v, t) ELSE v

----------------------------------------------------------------------------
(* State *)

\* impl Default for State
DefaultState == [telemetry_addr |-> None, streaming |-> FALSE]

\* a "ton" that starts streaming without a peer
TonState_StreamingOnly(s, mac) == [s EXCEPT !.streaming = TRUE]

\* a "ton" that keeps the peer it finds
TonState_KeepsPeer(s, mac) ==
    [s EXCEPT !.streaming = TRUE,
              !.telemetry_addr = IF @ = None THEN Some(mac) ELSE @]

\* main.rs:127-131
TonState(s, mac) == [s EXCEPT !.streaming = TRUE, !.telemetry_addr = Some(mac)]

\* a "toff" that also forgets the peer
ToffState_ClearsPeer(s) == [s EXCEPT !.streaming = FALSE, !.telemetry_addr = None]

\* main.rs:134-138
ToffState(s) == [s EXCEPT !.streaming = FALSE]

\* a test that looks at the peer alone
Emits_IgnoresStreaming(s) == s.telemetry_addr # None

\* main.rs:216-217 the cycle emits
Emits(s) == s.streaming /\ s.telemetry_addr # None

----------------------------------------------------------------------------
(* The altimeter, altimeter.rs *)

\* f64::max and f64::min: a NaN argument is ignored
f64_max(a, b) ==
    IF b = NAN THEN a ELSE IF a = NAN THEN b ELSE IF a >= b THEN a ELSE b

f64_min(a, b) ==
    IF b = NAN THEN a ELSE IF a = NAN THEN b ELSE IF a <= b THEN a ELSE b

\* a <= b on f64: false when either is NaN
f64_le(a, b) == a # NAN /\ b # NAN /\ a <= b

\* a < b on f64: false when either is NaN
f64_lt(a, b) == a # NAN /\ b # NAN /\ a < b

\* variances of the filter are kept in thousandths
Milli == 1000

\* altimeter.rs:79 the seed of the filter: KalmanState::new(102178.0, 2500.0)
SeedP == 102178 * Milli
SeedX == 2500

\* altimeter.rs:173 measurement noise 1.0 and process noise 0.4
NoiseR == Milli
NoiseQ == (4 * Milli) \div 10

\* KalmanState::new
KalmanNew(p_0, x_0) ==
    [n |-> 0, x |-> x_0, next_x |-> x_0, p |-> p_0, next_p |-> p_0]

\* an update that applies twice the correction of the gain
KalmanUpdate_DoubleGain(self, r_n, z_n, q) ==
    LET d == z_n - self.next_x
        x1 == (self.next_x + d) - ((d * r_n) \div (self.next_p + r_n))
        x == x1 + (x1 - self.next_x)
        p == r_n - ((r_n * r_n) \div (self.next_p + r_n))
    IN  [n |-> self.n + 1, x |-> x, next_x |-> x, p |-> p, next_p |-> p + q]

\* KalmanState::update.  With k_n = next_p / (next_p + r_n):
\*   k_n * d = d - d * r_n / (next_p + r_n),
\*   next_p * (1 - k_n) = r_n - r_n * r_n / (next_p + r_n),
\* which keeps the fixed-point products inside the integers.
KalmanUpdate(self, r_n, z_n, q) ==
    LET d == z_n - self.next_x
        x == (self.next_x + d) - ((d * r_n) \div (self.next_p + r_n))
        p == r_n - ((r_n * r_n) \div (self.next_p + r_n))
    IN  [n |-> self.n + 1, x |-> x, next_x |-> x, p |-> p, next_p |-> p + q]

\* The filter alone is followed in tenths of a pascal.
Deci == 10

\* constant measurement streams, in tenths of a pascal: at the seed of the
\* estimate, below it and above it, up to the pressures of the sensor
Streams ==
    { SeedX * Deci, 0, 10, 24000, 26000, 500000,
      99000 * Deci, 100000 * Deci, 101000 * Deci, InitialSeaLevel * Deci }

\* impl Default for AltimeterStats
DefaultStats ==
    [ maximum_altitude    |-> F64_MIN,
      minimum_altitude    |-> F64_MAX,
      maximum_temperature |-> F64_MIN,
      minimum_temperature |-> F64_MAX,
      maximum_pressure    |-> F64_MIN,
      minimum_pressure    |-> F64_MAX,
      altitude            |-> 0,
      temperature         |-> 0,
      pressure            |-> 0,
      filtered_pressure   |-> 0,
      kalman_state        |-> KalmanNew(SeedP, SeedX) ]

\* calc_altitude, in feet:
\* (1 - (pressure / sea_level)^0.190284) * 145366.45, rounded to the foot.
\* 0 / 0 is NaN and x / 0 is infinite; x / x is 1 and its power is 1; the
\* power of 0 is 0; the power of a negative ratio is NaN; the ratio of two
\* negative numbers is the ratio of their magnitudes.
calc_altitude(pressure, sea_level_atmospheres) ==
    LET p == pressure
        ref == sea_level_atmospheres
        a == IF p < 0 THEN 0 - p ELSE p
        b == IF ref < 0 THEN 0 - ref ELSE ref
    IN  IF p = NAN \/ ref = NAN THEN NAN
        ELSE IF ref = 0 THEN (IF p = 0 THEN NAN ELSE NEG_INFINITY)
        ELSE IF p = ref THEN 0
        ELSE IF p = 0 THEN 145366
        ELSE IF (p < 0) # (ref < 0) THEN NAN
        ELSE CASE a = 99000  /\ b = 102030 -> 832
               [] a = 100000 /\ b = 102030 -> 555
               [] a = 101000 /\ b = 102030 -> 280
               [] a = 99000  /\ b = 100000 -> 278
               [] a = 101000 /\ b = 100000 -> -275
               [] a = 102030 /\ b = 100000 -> -557

\* the pressures of the table above, in Pa
TablePressures == {99000, 100000, 101000, 102030}

\* an update that converts with the reference pressure of the constructor
UpdateStats_InitialReference(s, temperature, pressure, sea_level) ==
    LET k == KalmanUpdate(s.kalman_state, NoiseR, pressure, NoiseQ)
        altitude == calc_altitude(k.x, InitialSeaLevel)
    IN  [ s EXCEPT !.temperature = temperature,
                   !.pressure = pressure,
                   !.kalman_state = k,
                   !.filtered_pressure = k.x,
                   !.altitude = altitude,
                   !.maximum_temperature = f64_max(@, temperature),
                   !.minimum_temperature = f64_min(@, temperature),
                   !.minimum_altitude = f64_min(@, altitude),
                   !.maximum_altitude = f64_max(@, altitude),
                   !.maximum_pressure = f64_max(@, pressure),
                   !.minimum_pressure = f64_min(@, pressure) ]

\* altimeter.rs:168-190 the critical section of update_stats
UpdateStats(s, temperature, pressure, sea_level) ==
    LET k == KalmanUpdate(s.kalman_state, NoiseR, pressure, NoiseQ)
        altitude == calc_altitude(k.x, sea_level)
    IN  [ s EXCEPT !.temperature = temperature,
                   !.pressure = pressure,
                   !.kalman_state = k,
                   !.filtered_pressure = k.x,
                   !.altitude = altitude,
                   !.maximum_temperature = f64_max(@, temperature),
                   !.minimum_temperature = f64_min(@, temperature),
                   !.minimum_altitude = f64_min(@, altitude),
                   !.maximum_altitude = f64_max(@, altitude),
                   !.maximum_pressure = f64_max(@, pressure),
                   !.minimum_pressure = f64_min(@, pressure) ]

\* what the sensor reads in a cycle: temperature (C) and pressure (Pa)
Readings == { [temperature |-> 25, pressure |-> 100000] }

\* the readings of a sensor whose temperature changes
DriftReadings == Readings \cup { [temperature |-> 20, pressure |-> 100000] }

\* battery.stats(): BatteryStats, voltage as f32
BatteryReadings == { [charging |-> FALSE, voltage |-> AsF32(4)] }


----------------------------------------------------------------------------
(* Dispatch of the command thread: the if-chain of main.rs:115-198 *)

Branches == <<"tone", "ton", "toff", "re_tx", "inhg", "reset">>

Prefixes == <<T_tone, T_ton, T_toff, T_re_tx, T_inhg, T_reset>>

\* a chain that tests the text without its leading white space
Dispatch_SkipsLeadingSpace(d, k) ==
    LET S == {j \in (k + 1)..Len(Branches) : starts_with(TrimStart(d), Prefixes[j])}
    IN  IF S = {} THEN "done" ELSE Branches[Min(S)]

\* the next if of the chain, after the k-th, whose condition holds for d
Dispatch(d, k) ==
    LET S == {j \in (k + 1)..Len(Branches) : starts_with(d, Prefixes[j])}
    IN  IF S = {} THEN "done" ELSE Branches[Min(S)]

----------------------------------------------------------------------------
(* The touch screen of the ground station: src/ui/ui.rs and                *)
(* src/ui/button.rs, set up at basestation.rs:220-285.  A raw touch is     *)
(* (tx, ty, tz) in thousandths; a screen position is in pixels.            *)

\* ui.rs:42-45 ((ax, bx), (ay, by)), in thousandths
TOUCH_CALIBRATION == <<<<-453850, 267091>>, <<-476556, 372763>>>>

\* ui.rs:47 0.25, in thousandths
Z_THRESHOLD == 250

\* `as i32` of the quotient n / d: the fraction is dropped, towards zero
AsI32(n, d) == IF n >= 0 THEN n \div d ELSE -((-n) \div d)

\* basestation.rs:224-285 the five buttons, 25 by 25 pixels, 26 apart at
\* y = 215; clicks counts the calls of on_click
Button(bp, text) ==
    [point |-> <<bp, 215>>, size |-> <<25, 25>>, text |-> text,
     dirty |-> TRUE, hover |-> FALSE, clicks |-> 0]

Buttons ==
    <<Button(1, "TON"), Button(27, "TOFF"), Button(53, "TONE"),
      Button(79, "RST"), Button(105, "CLR")>>

\* button.rs:87-92 and Rectangle::contains: the left and top edges are
\* inside, the right and bottom edges are outside
bounding_box_contains(e, pt) ==
    /\ e.size[1] > 0 /\ e.size[2] > 0
    /\ pt[1] >= e.point[1] /\ pt[1] < e.point[1] + e.size[1]
    /\ pt[2] >= e.point[2] /\ pt[2] < e.point[2] + e.size[2]

\* ui.rs:129-138 the calibrated position and the status of a raw touch: x
\* is computed from ty and y from tx
TouchPosition(touch) ==
    [x |-> AsI32(TOUCH_CALIBRATION[2][1] * touch[2]
                     + TOUCH_CALIBRATION[2][2] * 1000, 1000000),
     y |-> AsI32(TOUCH_CALIBRATION[1][1] * touch[1]
                     + TOUCH_CALIBRATION[1][2] * 1000, 1000000),
     z |-> 0,
     status |-> IF touch[3] >= Z_THRESHOLD THEN "Down" ELSE "Up"]

\* the release is reported at the position of the release sample
process_touch_AtRelease(ts, touch) ==
    LET new == TouchPosition(touch) IN
    IF ts.status = "Up"
    THEN IF new.status = "Down"
         THEN [kind |-> "Down", at |-> <<new.x, new.y>>]
         ELSE [kind |-> "None"]
    ELSE IF new.status = "Up"
         THEN [kind |-> "Up", at |-> <<new.x, new.y>>]
         ELSE IF new.x # ts.x \/ new.y # ts.y
              THEN [kind |-> "Drag", from |-> <<ts.x, ts.y>>,
                    to |-> <<new.x, new.y>>]
              ELSE [kind |-> "None"]

\* ui.rs:140-160 the event of a raw touch, given the touch state before it
process_touch(ts, touch) ==
    LET new == TouchPosition(touch) IN
    IF ts.status = "Up"
    THEN IF new.status = "Down"
         THEN [kind |-> "Down", at |-> <<new.x, new.y>>]
         ELSE [kind |-> "None"]
    ELSE IF new.status = "Up"
         THEN [kind |-> "Up", at |-> <<ts.x, ts.y>>]
         ELSE IF new.x # ts.x \/ new.y # ts.y
              THEN [kind |-> "Drag", from |-> <<ts.x, ts.y>>,
                    to |-> <<new.x, new.y>>]
              ELSE [kind |-> "None"]

\* button.rs:94-109 Button::handle_event
handle_event(e, event) ==
    CASE event = "TouchEnter" -> [e EXCEPT !.dirty = TRUE, !.hover = TRUE]
      [] event = "TouchLeave" -> [e EXCEPT !.dirty = TRUE, !.hover = FALSE]
      [] event = "Tap" ->
            [e EXCEPT !.dirty = TRUE, !.hover = FALSE, !.clicks = @ + 1]

\* ui.rs:175-207 what one element does with the event of a touch
Notify(e, event) ==
    CASE event.kind = "Down" ->
            IF bounding_box_contains(e, event.at)
            THEN handle_event(e, "TouchEnter") ELSE e
      [] event.kind = "Up" ->
            IF bounding_box_contains(e, event.at)
            THEN handle_event(e, "Tap") ELSE e
      [] event.kind = "Drag" ->
            LET e0 == bounding_box_contains(e, event.from)
                e1 == bounding_box_contains(e, event.to)
            IN  IF ~e0 /\ e1 THEN handle_event(e, "TouchEnter")
                ELSE IF e0 /\ ~e1 THEN handle_event(e, "TouchLeave")
                ELSE e
      [] event.kind = "None" -> e

----------------------------------------------------------------------------
\* raw samples of the touch screen, in thousandths: tx puts y on the row of
\* the buttons (219) or above it (100); ty puts x in TON (10), in the gap
\* between TON and TOFF (26), in TOFF (40) or in CLR (110); tz is just
\* under or at the threshold
Touches == {104, 368} \X {761, 727, 698, 551} \X {249, 250}

\* main.rs:55 State, main.rs:95 the recording, altimeter.rs:86 the stats,
\* altimeter.rs:87 the sea level pressure
Mutexes == {"state", "recording", "stats", "sea_level_pressure"}

(* Initial state: main.rs:55-97, Datalink::new, Buzzer::new, and the      *)
(* ground station after basestation.rs:220-285                            *)

NoTelemetry ==
    [time |-> U32Zero, altitude |-> U32Zero, temperature |-> U32Zero,
     battery_voltage |-> U32Zero]

InitAt(start) ==
    /\ state = DefaultState
    /\ stateLock = "free"
    /\ recording = <<>>
    /\ stats = DefaultStats
    /\ sea_level_pressure = InitialSeaLevel
    /\ buzzer = [once |-> FALSE, playing |-> FALSE]
    /\ command_queue = <<>>
    /\ data_queue = <<>>
    /\ cmdPc = "recv"
    /\ mac_arr = ZeroMac
    /\ data = <<>>
    /\ num = 0
    /\ cmdTelemetry = None
    /\ mainPc = "update"
    /\ snapshot = DefaultStats
    /\ pushed = FALSE
    /\ telemetry = NoTelemetry
    /\ peer_addr = ZeroMac
    /\ clock = start
    /\ peers = {}
    /\ txPc = "run"
    /\ sessionPushes = 0
    /\ prevLen = 0
    /\ lastPush = None
    /\ lastTon = None
    /\ sendFailed = FALSE
    /\ encRecord = NoTelemetry
    /\ encBuffer = <<>>
    /\ bsPc = "recv"
    /\ bsData = <<>>
    /\ bsTelemetry = None
    /\ kalman = KalmanNew(SeedP, SeedX * Deci)
    /\ stream = SeedX * Deci
    /\ clients = <<>>
    /\ added = 0
    /\ bzPc = "read"
    /\ bzLocals = [once |-> FALSE, playing |-> FALSE]
    /\ plays = 0
    /\ tonePc = "once"
    /\ tones = 0
    /\ touch_state = [x |-> 0, y |-> 0, z |-> 0, status |-> "Up"]
    /\ elements = Buttons
    /\ dirty_all = TRUE
    /\ clear_flag = FALSE
    /\ touches = 0
    /\ locks = [m \in Mutexes |-> "free"]
    /\ lockPc = [main |-> "update", cmd |-> "recv"]

\* main.rs:203 the clock starts with the loop
Init == InitAt(U32Zero)

\* the same program 3 * SleepMs before its clock passes 2^32 ms, having
\* received no command so far
LateStart == <<Half - 1, Half - (3 * SleepMs)>>

InitLate == InitAt(LateStart)

shared == <<state, stateLock, recording, stats, sea_level_pressure, buzzer>>
cmdLocals == <<mac_arr, data, num, cmdTelemetry>>
cmdVars == <<cmdPc, mac_arr, data, num, cmdTelemetry>>
mainLocals == <<snapshot, pushed, telemetry, peer_addr>>
mainVars == <<mainPc, snapshot, pushed, telemetry, peer_addr, clock>>
txVars == <<peers, txPc>>
history == <<sessionPushes, prevLen, lastPush, lastTon, sendFailed>>
station == <<encRecord, encBuffer, bsPc, bsData, bsTelemetry, clients, added>>
filter == <<kalman, stream>>
sounder == <<bzPc, bzLocals, plays, tonePc, tones>>
panel == <<touch_state, elements, dirty_all, clear_flag, touches>>
mutexes == <<locks, lockPc>>
flight == <<shared, command_queue, data_queue, cmdVars, mainVars, txVars, history>>

----------------------------------------------------------------------------
(* The radio's receive callback, datalink.rs:75-81 *)

\* The channel is unbounded and only the command thread takes from it; a
\* delivery commutes with every step of that thread, so deliveries are taken
\* one at a time, while the thread waits in recv().
Deliver(msgs) ==
    /\ cmdPc = "recv"
    /\ command_queue = <<>>
    /\ \E m \in msgs : command_queue' = Append(command_queue, m)
    /\ UNCHANGED <<shared, data_queue, cmdVars, mainVars, txVars, history,
                   station, filter, sounder, panel, mutexes>>

\* a streaming command arrives
RecvCb == Deliver(StreamInbound)

\* an altimeter command arrives
RecvCbAltimeter == Deliver(AltimeterInbound)

\* a well-formed command of any kind arrives
RecvCbCommand == Deliver(CommandInbound)

\* a malformed message arrives, or the "ton" or "inhg" before it
RecvCbMalformed == Deliver(MalformedInbound)

\* a text no branch recognizes arrives, or the "ton" before it
RecvCbInert == Deliver(InertInbound)

\* a "ton" of one of two ground stations arrives, or a "re_tx"
RecvCbPeers == Deliver(PeerInbound)

----------------------------------------------------------------------------
(* The command thread, main.rs:99-200 *)

\* main.rs:105-113 receive a message and read it as UTF-8
CmdRecv ==
    /\ cmdPc = "recv"
    /\ command_queue # <<>>
    /\ LET m == Head(command_queue)
           text == from_utf8(m[2])
       IN  /\ command_queue' = Tail(command_queue)
           /\ IF text = None
              THEN UNCHANGED <<cmdPc, mac_arr, data>>
              ELSE /\ mac_arr' = m[1]
                   /\ data' = text[1]
                   /\ cmdPc' = Dispatch(text[1], 0)
    /\ UNCHANGED <<shared, data_queue, num, cmdTelemetry, mainVars, txVars, history,
                   station, filter, sounder, panel, mutexes>>

\* main.rs:115-119 buzzer.once(); buzzer.start()
CmdTone ==
    /\ cmdPc = "tone"
    /\ buzzer' = [once |-> TRUE, playing |-> TRUE]
    /\ cmdPc' = Dispatch(data, 1)
    /\ UNCHANGED <<state, stateLock, recording, stats, sea_level_pressure,
                   command_queue, data_queue, cmdLocals, mainVars, txVars, history,
                   station, filter, sounder, panel, mutexes>>

\* main.rs:121-126 clear the recording under its lock
CmdTonClear ==
    /\ cmdPc = "ton"
    /\ recording' = VecClear(recording)
    /\ prevLen' = Len(recording)
    /\ sessionPushes' = 0
    /\ lastPush' = None
    /\ cmdPc' = "ton_state"
    /\ UNCHANGED <<state, stateLock, stats, sea_level_pressure, buzzer,
                   command_queue, data_queue, cmdLocals, mainVars, txVars,
                   lastTon, sendFailed, station, filter, sounder, panel, mutexes>>

\* main.rs:127-131 set streaming and the peer under the State lock
CmdTonState ==
    /\ cmdPc = "ton_state"
    /\ stateLock = "free"
    /\ state' = TonState(state, mac_arr)
    /\ sendFailed' = FALSE
    /\ lastTon' = Some(mac_arr)
    /\ cmdPc' = Dispatch(data, 2)
    /\ UNCHANGED <<stateLock, recording, stats, sea_level_pressure, buzzer,
                   command_queue, data_queue, cmdLocals, mainVars, txVars,
                   sessionPushes, prevLen, lastPush, station, filter, sounder, panel, mutexes>>

\* main.rs:134-138
CmdToff ==
    /\ cmdPc = "toff"
    /\ stateLock = "free"
    /\ state' = ToffState(state)
    /\ cmdPc' = Dispatch(data, 3)
    /\ UNCHANGED <<stateLock, recording, stats, sea_level_pressure, buzzer,
                   command_queue, data_queue, cmdLocals, mainVars, txVars, history,
                   station, filter, sounder, panel, mutexes>>

\* an index that defaults to 0 when it is missing or unparseable
ReTxIndex_DefaultsToZero(d) ==
    LET parts == split(trim(d), " ")
        n == IF Len(parts) >= 2 THEN parse_usize(parts[2]) ELSE Err
    IN  IF n = Err THEN 0 ELSE n

\* main.rs:141-145 the index of "re_tx <index>", or Err
ReTxIndex(d) ==
    LET parts == split(trim(d), " ")
    IN  IF Len(parts) >= 2 THEN parse_usize(parts[2]) ELSE Err

\* main.rs:140-156 parse the index and look the record up under the recording lock
CmdReTx ==
    /\ cmdPc = "re_tx"
    /\ LET n == ReTxIndex(data)
       IN  IF n = Err
           THEN /\ cmdPc' = Dispatch(data, 4)
                /\ UNCHANGED <<num, cmdTelemetry>>
           ELSE /\ num' = n
                /\ cmdTelemetry' = VecGet(recording, n)
                /\ cmdPc' = IF VecGet(recording, n) # None
                            THEN "re_tx_send" ELSE Dispatch(data, 4)
    /\ UNCHANGED <<shared, command_queue, data_queue, mac_arr, data, mainVars,
                   txVars, history, station, filter, sounder, panel, mutexes>>

\* main.rs:158-169 encode and send to the peer, under the State lock;
\* send().unwrap() panics when the receiver of the channel is gone, and the
\* guard it holds poisons the mutex
CmdReTxSend ==
    /\ cmdPc = "re_tx_send"
    /\ stateLock = "free"
    /\ IF state.telemetry_addr # None /\ txPc = "panicked"
       THEN /\ cmdPc' = "panicked"
            /\ stateLock' = "poisoned"
            /\ UNCHANGED data_queue
       ELSE /\ IF state.telemetry_addr # None
               THEN /\ Len(data_queue) < MaxOutbound
                    /\ data_queue' = Append(data_queue,
                          <<state.telemetry_addr[1],
                            as_bytes(cmdTelemetry[1], ZeroBuffer)>>)
               ELSE UNCHANGED data_queue
            /\ cmdPc' = Dispatch(data, 4)
            /\ UNCHANGED stateLock
    /\ UNCHANGED <<state, recording, stats, sea_level_pressure, buzzer,
                   command_queue, cmdLocals, mainVars, txVars, history,
                   station, filter, sounder, panel, mutexes>>

\* main.rs:178-185 the pressure of "inhg <pressure>": Some(v), or None
InhgPressure(d) ==
    LET parts == split(trim(d), " ")
    IN  IF Len(parts) < 2 THEN None ELSE parse_f64(parts[2])

\* main.rs:177-194 altimeter.sea_level_pressure(v) when the pressure parses
CmdInhg ==
    /\ cmdPc = "inhg"
    /\ LET v == InhgPressure(data)
       IN  sea_level_pressure' = IF v = None THEN sea_level_pressure ELSE v[1]
    /\ cmdPc' = Dispatch(data, 5)
    /\ UNCHANGED <<state, stateLock, recording, stats, buzzer,
                   command_queue, data_queue, cmdLocals, mainVars, txVars, history,
                   station, filter, sounder, panel, mutexes>>

\* a reset that also puts the sea level pressure back at its initial value
CmdReset_AlsoResetsReference ==
    /\ cmdPc = "reset"
    /\ stats' = DefaultStats
    /\ sea_level_pressure' = InitialSeaLevel
    /\ cmdPc' = Dispatch(data, 6)
    /\ UNCHANGED <<state, stateLock, recording, buzzer,
                   command_queue, data_queue, cmdLocals, mainVars, txVars, history,
                   station, filter, sounder, panel, mutexes>>

\* main.rs:196-198 altimeter.reset_stats()
CmdReset ==
    /\ cmdPc = "reset"
    /\ stats' = DefaultStats
    /\ cmdPc' = Dispatch(data, 6)
    /\ UNCHANGED <<state, stateLock, recording, sea_level_pressure, buzzer,
                   command_queue, data_queue, cmdLocals, mainVars, txVars, history,
                   station, filter, sounder, panel, mutexes>>

\* main.rs:199 end of the loop body: the locals go out of scope
CmdDone ==
    /\ cmdPc = "done"
    /\ cmdPc' = "recv"
    /\ mac_arr' = ZeroMac
    /\ data' = <<>>
    /\ num' = 0
    /\ cmdTelemetry' = None
    /\ UNCHANGED <<shared, command_queue, data_queue, mainVars, txVars, history,
                   station, filter, sounder, panel, mutexes>>

\* the streaming commands: tone, ton, toff, re_tx
Command ==
    \/ CmdRecv
    \/ CmdTone
    \/ CmdTonClear
    \/ CmdTonState
    \/ CmdToff
    \/ CmdReTx
    \/ CmdReTxSend
    \/ CmdDone

\* the altimeter commands: inhg, reset
CommandAltimeter ==
    \/ CmdInhg
    \/ CmdReset

----------------------------------------------------------------------------
(* The sampling loop, main.rs:207-249 *)

MaxClock == MaxCycles * SleepMs

\* the time since the initial state of the model
Explored(ms) ==
    IF ms[1] < LateStart[1]
    THEN (ms[1] * Half) + ms[2]
    ELSE ((ms[1] - LateStart[1]) * Half) + (ms[2] - LateStart[2])

\* main.rs:208 update_stats succeeded, with one of the given readings
Update(readings) ==
    /\ mainPc = "update"
    /\ Explored(clock) < MaxClock
    /\ \E r \in readings :
          stats' = UpdateStats(stats, r.temperature, r.pressure, sea_level_pressure)
    /\ clock' = AddMs(clock, SleepMs)
    /\ mainPc' = "lock"
    /\ UNCHANGED <<state, stateLock, recording, sea_level_pressure, buzzer,
                   command_queue, data_queue, cmdVars, mainLocals, txVars, history,
                   station, filter, sounder, panel, mutexes>>

\* the sensor reads the same values in every cycle
MainUpdateOk == Update(Readings)

\* the temperature the sensor reads changes
MainUpdateDrift == Update(DriftReadings)

\* a failed update that has stored the temperature it read before the read
\* of the pressure failed
MainUpdateErr_KeepsReading ==
    /\ mainPc = "update"
    /\ Explored(clock) < MaxClock
    /\ clock' = AddMs(clock, SleepMs)
    /\ \E r \in Readings : stats' = [stats EXCEPT !.temperature = r.temperature]
    /\ UNCHANGED <<state, stateLock, recording, sea_level_pressure, buzzer,
                   command_queue, data_queue, cmdVars, mainPc, mainLocals,
                   txVars, history, station, filter, sounder, panel, mutexes>>

\* altimeter.rs:136-164, main.rs:210-212 a write to or a read of the sensor
\* failed: update_stats returns before it locks the stats, the error is
\* logged, next cycle.  (A failure before the sleep leaves the clock as it
\* is and changes nothing at all.)
MainUpdateErr ==
    /\ mainPc = "update"
    /\ Explored(clock) < MaxClock
    /\ clock' = AddMs(clock, SleepMs)
    /\ UNCHANGED <<shared, command_queue, data_queue, cmdVars, mainPc, mainLocals,
                   txVars, history, station, filter, sounder, panel, mutexes>>

\* main.rs:214-219 snapshot the stats, lock State, copy the peer.  The
\* snapshot is kept only by a cycle that emits: no other cycle reads it.
\* lock().unwrap() panics on a poisoned mutex, and a panic of the main
\* thread ends the process: the other threads stop where they are.
MainLock ==
    /\ mainPc = "lock"
    /\ stateLock # "main"
    /\ IF stateLock = "poisoned"
       THEN /\ mainPc' = "panicked"
            /\ txPc' = "exit"
            /\ UNCHANGED <<stateLock, peer_addr, snapshot>>
       ELSE /\ stateLock' = "main"
            /\ IF Emits(state)
               THEN /\ peer_addr' = state.telemetry_addr[1]
                    /\ snapshot' = stats
                    /\ mainPc' = "battery"
               ELSE /\ mainPc' = "end"
                    /\ UNCHANGED <<peer_addr, snapshot>>
            /\ UNCHANGED txPc
    /\ UNCHANGED <<state, recording, stats, sea_level_pressure, buzzer,
                   command_queue, data_queue, cmdVars, pushed, telemetry, clock,
                   peers, history, station, filter, sounder, panel, mutexes>>

\* main.rs:223-224 read the battery and build the record, State still locked
MainBatteryOk ==
    /\ mainPc = "battery"
    /\ \E b \in BatteryReadings :
          telemetry' = [TelemetryFrom(snapshot, b) EXCEPT !.time = AsU32(clock)]
    /\ mainPc' = "push"
    /\ UNCHANGED <<shared, command_queue, data_queue, cmdVars, snapshot, pushed,
                   peer_addr, clock, txVars, history, station, filter, sounder, panel, mutexes>>

\* main.rs:223 battery.stats() is Err and unwrap() panics: the main thread
\* ends, and the process with it
MainBatteryErr ==
    /\ mainPc = "battery"
    /\ mainPc' = "panicked"
    /\ stateLock' = "poisoned"
    /\ cmdPc' = "exit"
    /\ txPc' = "exit"
    /\ UNCHANGED <<state, recording, stats, sea_level_pressure, buzzer,
                   command_queue, data_queue, cmdLocals, mainLocals, clock, peers,
                   history, station, filter, sounder, panel, mutexes>>

\* main.rs:226-235 push under the recording lock, if there is room
MainPush ==
    /\ mainPc = "push"
    /\ recording' = TryPush(recording, telemetry)
    /\ pushed' = HasRoom(recording)
    /\ sessionPushes' = IF HasRoom(recording) THEN sessionPushes + 1 ELSE sessionPushes
    /\ lastPush' = IF HasRoom(recording) THEN Some(clock) ELSE lastPush
    /\ mainPc' = IF HasRoom(recording) THEN "send" ELSE "end"
    /\ UNCHANGED <<state, stateLock, stats, sea_level_pressure, buzzer,
                   command_queue, data_queue, cmdVars, snapshot, telemetry,
                   peer_addr, clock, txVars, prevLen, lastTon, sendFailed,
                   station, filter, sounder, panel, mutexes>>

\* main.rs:236-242 encode and hand to the transport; the Err of a channel
\* whose receiver is gone is dropped by ok()
MainSend ==
    /\ mainPc = "send"
    /\ IF txPc = "panicked"
       THEN UNCHANGED data_queue
       ELSE /\ Len(data_queue) < MaxOutbound
            /\ data_queue' = Append(data_queue,
                                    <<peer_addr, as_bytes(telemetry, ZeroBuffer)>>)
    /\ mainPc' = "end"
    /\ UNCHANGED <<shared, command_queue, cmdVars, mainLocals, clock, txVars, history,
                   station, filter, sounder, panel, mutexes>>

\* an iteration that ends with the State guard still held
MainEnd_KeepsLock ==
    /\ mainPc = "end"
    /\ mainPc' = "update"
    /\ snapshot' = DefaultStats
    /\ pushed' = FALSE
    /\ telemetry' = NoTelemetry
    /\ peer_addr' = ZeroMac
    /\ UNCHANGED <<shared, command_queue, data_queue, cmdVars, clock, txVars,
                   history, station, filter, sounder, panel, mutexes>>

\* main.rs:244-249 end of the iteration: the State guard and the locals are dropped
MainEnd ==
    /\ mainPc = "end"
    /\ stateLock' = "free"
    /\ mainPc' = "update"
    /\ snapshot' = DefaultStats
    /\ pushed' = FALSE
    /\ telemetry' = NoTelemetry
    /\ peer_addr' = ZeroMac
    /\ UNCHANGED <<state, recording, stats, sea_level_pressure, buzzer,
                   command_queue, data_queue, cmdVars, clock, txVars, history,
                   station, filter, sounder, panel, mutexes>>

Sampling ==
    \/ MainUpdateOk
    \/ MainUpdateErr
    \/ MainLock
    \/ MainBatteryOk
    \/ MainPush
    \/ MainSend
    \/ MainEnd

----------------------------------------------------------------------------
(* The transport thread, datalink.rs:84-105.  One iteration touches only the *)
(* channel and the radio, so it is one step.                                  *)

\* a transport that registers a peer only when it has none
Registered_OnlyFirst(ps, addr) == IF ps = {} THEN {addr} ELSE ps

\* datalink.rs:88-92 the peers after the existence check and add_peer
Registered(ps, addr) == IF addr \in ps THEN ps ELSE ps \cup {addr}

\* the messages handed to the transport when it is followed alone
OutboundMessages ==
    { <<"mac1", as_bytes(NoTelemetry, ZeroBuffer)>>,
      <<"mac1", as_bytes([NoTelemetry EXCEPT !.time = <<0, SleepMs>>], ZeroBuffer)>>,
      <<"mac2", as_bytes(NoTelemetry, ZeroBuffer)>>,
      <<"mac2", as_bytes([NoTelemetry EXCEPT !.time = <<0, SleepMs>>], ZeroBuffer)>> }

\* main.rs:166, main.rs:241 data_sender.send((addr, data_vec)), by either thread
DataSend ==
    /\ Len(data_queue) < MaxBacklog
    /\ \E m \in OutboundMessages : data_queue' = Append(data_queue, m)
    /\ UNCHANGED <<shared, command_queue, cmdVars, mainVars, txVars, history,
                   station, filter, sounder, panel, mutexes>>

\* datalink.rs:86-93 take a message, register its peer, send: the send succeeds
TxSendOk ==
    /\ txPc = "run"
    /\ data_queue # <<>>
    /\ data_queue' = Tail(data_queue)
    /\ peers' = Registered(peers, Head(data_queue)[1])
    /\ UNCHANGED <<shared, command_queue, cmdVars, mainVars, txPc, history,
                   station, filter, sounder, panel, mutexes>>

\* a transport that keeps the message of a failed send to send it again
TxSendErr_Retries ==
    /\ txPc = "run"
    /\ data_queue # <<>>
    /\ peers' = Registered(peers, Head(data_queue)[1])
    /\ sendFailed' = TRUE
    /\ UNCHANGED <<shared, command_queue, data_queue, cmdVars, mainVars, txPc,
                   sessionPushes, prevLen, lastPush, lastTon, station, filter, sounder, panel, mutexes>>

\* datalink.rs:86-104 the same, and the send fails: the error is logged
TxSendErr ==
    /\ txPc = "run"
    /\ data_queue # <<>>
    /\ data_queue' = Tail(data_queue)
    /\ peers' = Registered(peers, Head(data_queue)[1])
    /\ sendFailed' = TRUE
    /\ UNCHANGED <<shared, command_queue, cmdVars, mainVars, txPc,
                   sessionPushes, prevLen, lastPush, lastTon, station, filter, sounder, panel, mutexes>>

\* datalink.rs:88-92 peer_exists() or add_peer() is Err and unwrap() panics:
\* the thread ends and drops the receiver of the channel with what it holds
TxPeerErr ==
    /\ txPc = "run"
    /\ data_queue # <<>>
    /\ data_queue' = <<>>
    /\ txPc' = "panicked"
    /\ UNCHANGED <<shared, command_queue, cmdVars, mainVars, peers, history,
                   station, filter, sounder, panel, mutexes>>

Transport ==
    \/ TxSendOk
    \/ TxSendErr

----------------------------------------------------------------------------
(* The codec between the flight computer and the ground station: as_bytes  *)
(* at main.rs:236-241 and main.rs:158-166, from_bytes in the receive       *)
(* callback of the ground station, basestation.rs:406-430.                 *)

\* every receiver has room: the frames that arrive are bounded by what the
\* clients have not yet taken
HasInboxRoom == \A i \in 1..Len(clients) : Len(clients[i].inbox) < MaxInbox

\* a record is encoded into a buffer and the frame reaches the callback
StationRecv(records, buffers) ==
    /\ bsPc = "recv"
    /\ HasInboxRoom
    /\ \E r \in records, b \in buffers :
          /\ encRecord' = r
          /\ encBuffer' = b
          /\ bsData' = as_bytes(r, b)
    /\ bsPc' = "decode"
    /\ UNCHANGED <<bsTelemetry, clients, added, flight, filter, sounder, panel,
                   mutexes>>

StationRecvCb == StationRecv(CodecRecords, CodecBuffers)

\* the frames of two records of the flight computer
StationRecvCbFanOut == StationRecv(FanOutRecords, {ZeroBuffer})

\* a frame that is shorter than a record reaches the callback, which does
\* not look at its sender
StationRecvShort ==
    /\ bsPc = "recv"
    /\ HasInboxRoom
    /\ \E f \in ShortFrames : bsData' = f
    /\ bsPc' = "decode"
    /\ UNCHANGED <<encRecord, encBuffer, bsTelemetry, clients, added, flight, filter,
                   sounder, panel, mutexes>>

\* basestation.rs:410 Telemetry::from_bytes(&data).unwrap(): a panic inside
\* the callback ends the receiver
StationDecode ==
    /\ bsPc = "decode"
    /\ IF Underflows(bsData)
       THEN /\ bsPc' = "panicked"
            /\ UNCHANGED <<bsTelemetry, clients>>
       ELSE /\ bsTelemetry' = Some(from_bytes(bsData))
            /\ clients' = FanOut(clients, 1, from_bytes(bsData))
            /\ bsPc' = "recv"
    /\ UNCHANGED <<encRecord, encBuffer, bsData, added, flight, filter,
                   sounder, panel, mutexes>>

\* basestation.rs:67-72 add_client: the draw loop at basestation.rs:153,
\* then one per websocket connection at basestation.rs:169
AddClient ==
    /\ added < MaxClients
    /\ added' = added + 1
    /\ clients' = Append(clients,
                         [id |-> added + 1, connected |-> TRUE, inbox |-> <<>>])
    /\ UNCHANGED <<encRecord, encBuffer, bsPc, bsData, bsTelemetry, flight,
                   filter, sounder, panel, mutexes>>

\* basestation.rs:176-177, 298 a client takes the oldest record it was sent
ClientRecv ==
    /\ \E i \in 1..Len(clients) :
          /\ clients[i].inbox # <<>>
          /\ clients' = [clients EXCEPT ![i].inbox = Tail(@)]
    /\ UNCHANGED <<encRecord, encBuffer, bsPc, bsData, bsTelemetry, added,
                   flight, filter, sounder, panel, mutexes>>

\* basestation.rs:172-174, 180-182 the thread of a websocket client ends
\* when the socket is closed, and drops its receiver with what it holds;
\* the receiver of the draw loop, the first client, lives on
ClientDrop ==
    /\ \E i \in 1..Len(clients) :
          /\ clients[i].id # 1
          /\ clients[i].connected
          /\ clients' = [clients EXCEPT ![i].connected = FALSE,
                                        ![i].inbox = <<>>]
    /\ UNCHANGED <<encRecord, encBuffer, bsPc, bsData, bsTelemetry, added,
                   flight, filter, sounder, panel, mutexes>>

----------------------------------------------------------------------------
(* The filter of the pressure on a constant stream: KalmanState::new at    *)
(* altimeter.rs:79 and the update of altimeter.rs:173.                     *)

\* altimeter.rs:129-132 the filter is back at its seed, and a stream begins
KalmanStart ==
    /\ kalman' = KalmanNew(SeedP, SeedX * Deci)
    /\ \E z \in Streams : stream' = z
    /\ UNCHANGED <<flight, station, sounder, panel, mutexes>>

\* altimeter.rs:173 kalman_state.update(1.0, pressure, 0.4)
KalmanStep ==
    /\ kalman.n < MaxSamples
    /\ kalman' = KalmanUpdate(kalman, NoiseR, stream, NoiseQ)
    /\ UNCHANGED <<stream, flight, station, sounder, panel, mutexes>>

----------------------------------------------------------------------------
(* The buzzer: the tone branch of the command thread, main.rs:115-119,     *)
(* calls once() and then start(), each under the mutex of BuzzerState; the *)
(* buzzer thread of buzzer.rs:84-115 runs beside it.                       *)

\* buzzer.rs:57-61 Buzzer::once, called at main.rs:117
BuzzerOnce ==
    /\ tonePc = "once"
    /\ tones < MaxTones
    /\ buzzer' = [once |-> TRUE, playing |-> TRUE]
    /\ tones' = tones + 1
    /\ tonePc' = "start"
    /\ UNCHANGED <<state, stateLock, recording, stats, sea_level_pressure,
                   command_queue, data_queue, cmdVars, mainVars, txVars,
                   history, station, filter, bzPc, bzLocals, plays, panel, mutexes>>

\* buzzer.rs:53-55 Buzzer::start, called at main.rs:118
BuzzerStart ==
    /\ tonePc = "start"
    /\ buzzer' = [buzzer EXCEPT !.playing = TRUE]
    /\ tonePc' = "once"
    /\ UNCHANGED <<state, stateLock, recording, stats, sea_level_pressure,
                   command_queue, data_queue, cmdVars, mainVars, txVars,
                   history, station, filter, bzPc, bzLocals, plays, tones,
                   panel, mutexes>>

\* buzzer.rs:87-92 the thread copies the state under the lock
BuzzerRead ==
    /\ bzPc = "read"
    /\ bzLocals' = buzzer
    /\ bzPc' = IF buzzer.playing THEN "play" ELSE "sleep"
    /\ UNCHANGED <<flight, station, filter, plays, tonePc, tones, panel, mutexes>>

\* buzzer.rs:93-101 the pattern set at main.rs:70-73 is played, with no
\* lock held
BuzzerPlay ==
    /\ bzPc = "play"
    /\ plays < MaxPlays
    /\ plays' = plays + 1
    /\ bzPc' = IF bzLocals.once THEN "reset" ELSE "sleep"
    /\ UNCHANGED <<flight, station, filter, bzLocals, tonePc, tones, panel, mutexes>>

\* buzzer.rs:101-105 the one-shot ends: playing and once are cleared
BuzzerReset ==
    /\ bzPc = "reset"
    /\ buzzer' = [once |-> FALSE, playing |-> FALSE]
    /\ bzPc' = "sleep"
    /\ UNCHANGED <<state, stateLock, recording, stats, sea_level_pressure,
                   command_queue, data_queue, cmdVars, mainVars, txVars,
                   history, station, filter, bzLocals, plays, tonePc, tones,
                   panel, mutexes>>

\* buzzer.rs:108-114 the rest of the period
BuzzerSleep ==
    /\ bzPc = "sleep"
    /\ bzPc' = "read"
    /\ UNCHANGED <<flight, station, filter, bzLocals, plays, tonePc, tones,
                   panel, mutexes>>

----------------------------------------------------------------------------
(* The four mutexes of the flight computer, one step per lock() and per    *)
(* drop of a guard, in the order of the code: the sampling loop of         *)
(* main.rs:207-247 with update_stats of altimeter.rs:168-191, and the      *)
(* command thread of main.rs:104-199.  The transport thread of             *)
(* datalink.rs:84-105 takes none of them.                                  *)

restOfLocks ==
    <<stateLock, recording, stats, sea_level_pressure, buzzer, command_queue,
      data_queue, cmdVars, mainVars, txVars, history, station, filter,
      sounder, panel>>

\* Mutex::lock by thread t, which waits while another thread holds m
Acquire(t, m, from, to) ==
    /\ lockPc[t] = from
    /\ locks[m] = "free"
    /\ locks' = [locks EXCEPT ![m] = t]
    /\ lockPc' = [lockPc EXCEPT ![t] = to]
    /\ UNCHANGED restOfLocks

\* the drop of the guard of m by thread t
Release(t, m, from, to) ==
    /\ lockPc[t] = from
    /\ locks[m] = t
    /\ locks' = [locks EXCEPT ![m] = "free"]
    /\ lockPc' = [lockPc EXCEPT ![t] = to]
    /\ UNCHANGED restOfLocks

\* a step of thread t that takes and drops no lock
Proceed(t, from, to) ==
    /\ lockPc[t] = from
    /\ lockPc' = [lockPc EXCEPT ![t] = to]
    /\ UNCHANGED <<locks, restOfLocks>>

\* altimeter.rs:168 update_stats locks the stats
UpdateStatsLock ==
    /\ Acquire("main", "stats", "update", "update_stats")
    /\ UNCHANGED state

\* altimeter.rs:176-179 with the stats held, the sea level pressure is
\* locked for the call of calc_altitude
UpdateSeaLevelLock ==
    /\ Acquire("main", "sea_level_pressure", "update_stats", "calc_altitude")
    /\ UNCHANGED state

\* altimeter.rs:179 the temporary guard is dropped with the statement
UpdateSeaLevelUnlock ==
    /\ Release("main", "sea_level_pressure", "calc_altitude", "update_done")
    /\ UNCHANGED state

\* altimeter.rs:191 update_stats returns
UpdateStatsUnlock ==
    /\ Release("main", "stats", "update_done", "clone")
    /\ UNCHANGED state

\* main.rs:214 the stats are locked again for the clone
CloneLock ==
    /\ Acquire("main", "stats", "clone", "cloned")
    /\ UNCHANGED state

CloneUnlock ==
    /\ Release("main", "stats", "cloned", "state")
    /\ UNCHANGED state

\* main.rs:215 the guard of State lives to the end of the iteration
StateLock ==
    /\ Acquire("main", "state", "state", "streaming")
    /\ UNCHANGED state

\* main.rs:216-217 not streaming, or no peer: no record this cycle
NotStreaming ==
    /\ ~Emits(state)
    /\ Proceed("main", "streaming", "end")
    /\ UNCHANGED state

\* main.rs:228 with State held, the recording is locked for the push
PushLock ==
    /\ Emits(state)
    /\ Acquire("main", "recording", "streaming", "push")
    /\ UNCHANGED state

\* main.rs:234 the scoped guard of the recording is dropped before the send
PushUnlock ==
    /\ Release("main", "recording", "push", "end")
    /\ UNCHANGED state

\* main.rs:244 the guard of State is dropped
StateUnlock ==
    /\ Release("main", "state", "end", "update")
    /\ UNCHANGED state

SamplingLocks ==
    \/ UpdateStatsLock
    \/ UpdateSeaLevelLock
    \/ UpdateSeaLevelUnlock
    \/ UpdateStatsUnlock
    \/ CloneLock
    \/ CloneUnlock
    \/ StateLock
    \/ NotStreaming
    \/ PushLock
    \/ PushUnlock
    \/ StateUnlock

\* main.rs:105-199 the command thread takes a command and enters the
\* branch of its prefix
BranchOf ==
    /\ \E b \in {"ton", "toff", "re_tx", "inhg", "reset"} :
          Proceed("cmd", "recv", b)
    /\ UNCHANGED state

\* main.rs:124 ton locks the recording for the clear
TonClearLock ==
    /\ Acquire("cmd", "recording", "ton", "ton_clear")
    /\ UNCHANGED state

\* the guard of the recording is kept while State is locked
TonClearUnlock_KeepsGuard ==
    /\ Proceed("cmd", "ton_clear", "ton_state")
    /\ UNCHANGED state

\* main.rs:126 the block of the clear ends and drops the guard
TonClearUnlock ==
    /\ Release("cmd", "recording", "ton_clear", "ton_state")
    /\ UNCHANGED state

\* main.rs:128 ton locks State
TonStateLock ==
    /\ Acquire("cmd", "state", "ton_state", "ton_set")
    /\ state' = TonState(state, "mac1")

\* main.rs:131
TonStateUnlock ==
    /\ Release("cmd", "state", "ton_set", "recv")
    /\ UNCHANGED state

\* main.rs:136 toff locks State
ToffLock ==
    /\ Acquire("cmd", "state", "toff", "toff_set")
    /\ state' = ToffState(state)

\* main.rs:138
ToffUnlock ==
    /\ Release("cmd", "state", "toff_set", "recv")
    /\ UNCHANGED state

\* main.rs:149 re_tx locks the recording for the lookup
ReTxLookupLock ==
    /\ Acquire("cmd", "recording", "re_tx", "re_tx_get")
    /\ UNCHANGED state

\* main.rs:156 the block of the lookup ends
ReTxLookupUnlock ==
    /\ Release("cmd", "recording", "re_tx_get", "re_tx_got")
    /\ UNCHANGED state

\* main.rs:170-172 the index holds no record
ReTxMissing ==
    /\ Proceed("cmd", "re_tx_got", "recv")
    /\ UNCHANGED state

\* main.rs:160 a record was found: State is locked for the peer
ReTxStateLock ==
    /\ Acquire("cmd", "state", "re_tx_got", "re_tx_send")
    /\ UNCHANGED state

\* main.rs:169
ReTxStateUnlock ==
    /\ Release("cmd", "state", "re_tx_send", "recv")
    /\ UNCHANGED state

\* altimeter.rs:126 inhg locks the sea level pressure for the assignment
InhgLock ==
    /\ Acquire("cmd", "sea_level_pressure", "inhg", "inhg_set")
    /\ UNCHANGED state

InhgUnlock ==
    /\ Release("cmd", "sea_level_pressure", "inhg_set", "recv")
    /\ UNCHANGED state

\* altimeter.rs:130 reset locks the stats
ResetLock ==
    /\ Acquire("cmd", "stats", "reset", "reset_set")
    /\ UNCHANGED state

\* altimeter.rs:132
ResetUnlock ==
    /\ Release("cmd", "stats", "reset_set", "recv")
    /\ UNCHANGED state

CommandLocks ==
    \/ BranchOf
    \/ TonClearLock
    \/ TonClearUnlock
    \/ TonStateLock
    \/ TonStateUnlock
    \/ ToffLock
    \/ ToffUnlock
    \/ ReTxLookupLock
    \/ ReTxLookupUnlock
    \/ ReTxMissing
    \/ ReTxStateLock
    \/ ReTxStateUnlock
    \/ InhgLock
    \/ InhgUnlock
    \/ ResetLock
    \/ ResetUnlock

----------------------------------------------------------------------------
(* The loop of the touch screen, basestation.rs:286-302: the flag of the   *)
(* CLR button, one touch sample, the drawing.                              *)

restOfPanel == <<flight, station, filter, sounder, mutexes>>

\* basestation.rs:287-291 the screen is cleared on the flag of CLR
UiClear ==
    /\ clear_flag
    /\ dirty_all' = TRUE
    /\ clear_flag' = FALSE
    /\ UNCHANGED <<touch_state, elements, touches, restOfPanel>>

\* basestation.rs:293-294 and ui.rs:167-208 handle_touch: the event of the
\* sample is computed, the touch state is replaced, and every element is
\* told; on_click of CLR sets the flag (basestation.rs:276-278)
HandleTouch ==
    /\ touches < MaxTouches
    /\ \E touch \in Touches :
          LET event == process_touch(touch_state, touch)
              told == [i \in 1..Len(elements) |-> Notify(elements[i], event)]
          IN  /\ touch_state' = TouchPosition(touch)
              /\ elements' = told
              /\ clear_flag' = (clear_flag \/ told[5].clicks # elements[5].clicks)
    /\ touches' = touches + 1
    /\ UNCHANGED <<dirty_all, restOfPanel>>

\* basestation.rs:302 and ui.rs:113-120 draw: an element that is dirty, or
\* any element when dirty_all is set, is drawn, which ends its being dirty
\* (button.rs:84)
UiDraw ==
    /\ elements' = [i \in 1..Len(elements) |->
                       IF elements[i].dirty \/ dirty_all
                       THEN [elements[i] EXCEPT !.dirty = FALSE]
                       ELSE elements[i]]
    /\ dirty_all' = FALSE
    /\ UNCHANGED <<touch_state, clear_flag, touches, restOfPanel>>

----------------------------------------------------------------------------

Next ==
    \/ RecvCb
    \/ Command
    \/ Sampling
    \/ Transport

\* the flight computer under the streaming commands
Spec == Init /\ [][Next]_vars

\* the same, as the clock passes 2^32 ms
SpecLate == InitLate /\ [][Next]_vars

\* one command of each kind arrives; the sensor and the radio do not fail
NextAll ==
    \/ RecvCbCommand
    \/ Command
    \/ CommandAltimeter
    \/ MainUpdateOk
    \/ MainLock
    \/ MainBatteryOk
    \/ MainPush
    \/ MainSend
    \/ MainEnd
    \/ TxSendOk

\* the flight computer under one command of each kind
SpecAll == Init /\ [][NextAll]_vars

\* no "ton" arrives: the command thread takes the altimeter commands and
\* the sampling loop never emits
NextAltimeter ==
    \/ RecvCbAltimeter
    \/ CmdRecv
    \/ CommandAltimeter
    \/ CmdDone
    \/ MainUpdateDrift
    \/ MainUpdateErr
    \/ MainLock
    \/ MainEnd

\* the flight computer under the altimeter commands
SpecAltimeter == Init /\ [][NextAltimeter]_vars

\* the collaborators fail: the battery read, the peer check
NextFaults ==
    \/ Next
    \/ MainBatteryErr
    \/ TxPeerErr

\* the flight computer under the streaming commands, with failing collaborators
SpecFaults == Init /\ [][NextFaults]_vars

\* the steps the command thread takes on a message it drops, and on the
\* "ton" and "inhg" delivered with them
CommandMalformed ==
    \/ CmdRecv
    \/ CmdTonClear
    \/ CmdTonState
    \/ CmdReTx
    \/ CmdInhg
    \/ CmdDone

NextMalformed ==
    \/ RecvCbMalformed
    \/ CommandMalformed
    \/ Sampling
    \/ Transport

\* the flight computer under malformed messages
SpecMalformed == Init /\ [][NextMalformed]_vars

\* the steps the command thread takes on a text no branch recognizes, and on
\* the "ton" delivered with them
CommandInert ==
    \/ CmdRecv
    \/ CmdTonClear
    \/ CmdTonState
    \/ CmdDone

NextInert ==
    \/ RecvCbInert
    \/ CommandInert
    \/ Sampling
    \/ Transport

\* the flight computer under texts that are not commands
SpecInert == Init /\ [][NextInert]_vars

\* the steps the command thread takes on "ton" and "re_tx"
CommandPeers ==
    \/ CmdRecv
    \/ CmdTonClear
    \/ CmdTonState
    \/ CmdReTx
    \/ CmdReTxSend
    \/ CmdDone

NextPeers ==
    \/ RecvCbPeers
    \/ CommandPeers
    \/ Sampling
    \/ Transport
    \/ TxPeerErr

\* the flight computer under two ground stations, with a peer check that
\* may fail
SpecPeers == Init /\ [][NextPeers]_vars

NextCodec ==
    \/ StationRecvCb
    \/ StationRecvShort
    \/ StationDecode

\* records encoded by the flight computer and decoded by the ground station
SpecCodec == Init /\ [][NextCodec]_vars

NextKalman ==
    \/ KalmanStart
    \/ KalmanStep

\* the filter on constant streams
SpecKalman == Init /\ [][NextKalman]_vars

NextTransport ==
    \/ DataSend
    \/ TxSendOk
    \/ TxSendErr

\* the transport thread and its channel
SpecTransport == Init /\ [][NextTransport]_vars

NextBuzzer ==
    \/ BuzzerOnce
    \/ BuzzerStart
    \/ BuzzerRead
    \/ BuzzerPlay
    \/ BuzzerReset
    \/ BuzzerSleep

\* the tone branch of the command thread beside the buzzer thread
SpecBuzzer == Init /\ [][NextBuzzer]_vars

NextFanOut ==
    \/ StationRecvCbFanOut
    \/ StationRecvShort
    \/ StationDecode
    \/ AddClient
    \/ ClientRecv
    \/ ClientDrop

\* the receive callback of the ground station and its clients
SpecFanOut == Init /\ [][NextFanOut]_vars

NextPanel ==
    \/ UiClear
    \/ HandleTouch
    \/ UiDraw

\* the touch screen of the ground station
SpecPanel == Init /\ [][NextPanel]_vars

NextLocks ==
    \/ SamplingLocks
    \/ CommandLocks

\* the sampling loop and the command thread on the four mutexes
SpecLocks == Init /\ [][NextLocks]_vars

----------------------------------------------------------------------------
(* Steps of the threads, for the properties below *)

\* the command thread leaves position pc
CmdStepAt(pc) == cmdPc = pc /\ cmdPc' # pc

\* the sampling loop leaves position pc
MainStepAt(pc) == mainPc = pc /\ mainPc' # pc

\* the message a step appends to data_queue
Enqueued == data_queue'[Len(data_queue')]

\* a step appends exactly one message to data_queue
EnqueuesOne ==
    /\ Len(data_queue') = Len(data_queue) + 1
    /\ SubSeq(data_queue', 1, Len(data_queue)) = data_queue

\* byte k of a u32, k = 0 the least significant
ByteAt(x, k) ==
    IF k < 2 THEN (x[2] \div Pow2(8 * k)) % 256
             ELSE (x[1] \div Pow2(8 * (k - 2))) % 256

\* |a - b|
Dist(a, b) == IF a >= b THEN a - b ELSE b - a

----------------------------------------------------------------------------
(* C1: when the command thread has processed a command that starts with    *)
(* "ton" from sender S, streaming is true, telemetry_addr is Some(S), and  *)
(* the recording holds nothing it held before the command: its records are *)
(* the ones pushed since the clear.  This holds from every state.          *)
C1_TonStartsSession ==
    (cmdPc = "done" /\ starts_with(data, T_ton)) =>
        /\ state.streaming = TRUE
        /\ state.telemetry_addr = Some(mac_arr)
        /\ Len(recording) = sessionPushes

\* a "ton" of the second sender has taken over a session that had records
C1_Witness ==
    /\ cmdPc = "done"
    /\ data = T_ton
    /\ mac_arr = "mac2"
    /\ prevLen > 0
    /\ state = [telemetry_addr |-> Some("mac2"), streaming |-> TRUE]
    /\ recording = <<>>

(* C2: processing "toff" sets streaming to false and changes neither       *)
(* telemetry_addr nor the recording.                                       *)
C2_ToffKeepsPeer ==
    [][ (cmdPc # "recv" /\ cmdPc' # cmdPc /\ starts_with(data, T_toff)) =>
            /\ state'.telemetry_addr = state.telemetry_addr
            /\ recording' = recording
            /\ (cmdPc = "toff" => state'.streaming = FALSE) ]_vars

\* "toff" has stopped a session with a peer and records
C2_Witness ==
    /\ cmdPc = "done"
    /\ data = T_toff
    /\ state.streaming = FALSE
    /\ state.telemetry_addr = Some("mac1")
    /\ recording # <<>>

(* C3: no step of the processing of a command that starts with "tone"      *)
(* changes the recording, telemetry_addr or streaming.                     *)
C3_ToneOnlyBuzzes ==
    [][ (cmdPc # "recv" /\ cmdPc' # cmdPc /\ starts_with(data, T_tone)) =>
            (recording' = recording /\ state' = state) ]_vars

(* C4: once a radio send has failed, and until the next "ton" is           *)
(* processed, telemetry_addr is None and the sampling loop is not about to *)
(* hand a payload to the transport.                                        *)
C4_SendFailureUnsubscribes ==
    sendFailed => (state.telemetry_addr = None /\ mainPc # "send")

C6_RecordingBounded ==
    [][ /\ Len(recording') <= Capacity
        /\ \A i \in Capacity..(Capacity + 2) : VecGet(recording', i) = None
        /\ MainStepAt("push") =>
              /\ Len(recording') >= Len(recording)
              /\ SubSeq(recording', 1, Len(recording)) = recording
              /\ Len(recording) = Capacity =>
                    (recording' = recording /\ mainPc' = "end"
                     /\ data_queue' = data_queue) ]_vars

\* a streaming cycle found the recording full and dropped its record
C6_Witness ==
    /\ mainPc = "end"
    /\ pushed = FALSE
    /\ peer_addr # ZeroMac
    /\ Len(recording) = Capacity
    /\ \A i \in 1..Len(recording) : recording[i] # telemetry

(* C7: whenever the sampling loop hands a payload to the transport, the    *)
(* record it encodes is in the recording, at the index equal to its rank   *)
(* among the records pushed in the current session.                        *)
C7_SentIsRecorded ==
    [][ MainStepAt("send") =>
            /\ sessionPushes >= 1
            /\ VecGet(recording, sessionPushes - 1) = Some(telemetry) ]_vars

(* C8: "re_tx i" with a record at index i and a peer set, streaming or     *)
(* not: the lookup enqueues nothing, the send enqueues exactly one message *)
(* of BufferLen bytes, addressed to telemetry_addr, that decodes to the    *)
(* record at index i; neither step changes the recording or State.         *)
C8_ReTxSendsRecord ==
    [][ /\ CmdStepAt("re_tx") =>
              (data_queue' = data_queue /\ recording' = recording /\ state' = state)
        /\ (CmdStepAt("re_tx_send") /\ state.telemetry_addr # None) =>
              /\ EnqueuesOne
              /\ Enqueued[1] = state.telemetry_addr[1]
              /\ Len(Enqueued[2]) = BufferLen
              /\ num < Len(recording)
              /\ from_bytes(Enqueued[2]) = recording[num + 1]
              /\ recording' = recording
              /\ state' = state ]_vars

\* a record was retransmitted to the peer while streaming was off
C8_Witness ==
    /\ cmdPc = "done"
    /\ starts_with(data, T_re_tx)
    /\ cmdTelemetry # None
    /\ state.streaming = FALSE
    /\ state.telemetry_addr = Some("mac1")
    /\ num = 1
    /\ data_queue # <<>>
    /\ data_queue[Len(data_queue)][1] = "mac1"
    /\ from_bytes(data_queue[Len(data_queue)][2]) = recording[2]

(* C9: "re_tx i" with i not an index of the recording, or with no peer     *)
(* set: nothing is enqueued, nothing changes, no send step follows and the *)
(* thread reaches the end of its loop body.                                *)
C9_ReTxMissing ==
    [][ /\ (CmdStepAt("re_tx") /\ ReTxIndex(data) # Err
               /\ (ReTxIndex(data) >= Len(recording) \/ state.telemetry_addr = None)) =>
              /\ cmdPc' = "done"
              /\ cmdTelemetry' = None
              /\ data_queue' = data_queue
              /\ recording' = recording
              /\ state' = state
        /\ (CmdStepAt("re_tx_send") /\ state.telemetry_addr = None) =>
              /\ cmdPc' = "done"
              /\ data_queue' = data_queue
              /\ recording' = recording
              /\ state' = state ]_vars

\* a lookup past the end of a recording that has records found nothing
C9_Witness ==
    /\ cmdPc = "done"
    /\ starts_with(data, T_re_tx)
    /\ ReTxIndex(data) # Err
    /\ num = ReTxIndex(data)
    /\ num >= Len(recording)
    /\ recording # <<>>
    /\ cmdTelemetry = None
    /\ state.telemetry_addr # None

(* C10: the recording holds exactly the records pushed since the last      *)
(* "ton" cleared it, so a record "re_tx i" finds is one the current        *)
(* session pushed at index i: an index of the previous session finds       *)
(* nothing until the current session has pushed more than i records.       *)
C10_NoStaleRecord ==
    /\ Len(recording) = sessionPushes
    /\ (cmdPc \in {"re_tx_send", "done"} /\ starts_with(data, T_re_tx)
           /\ cmdTelemetry # None) => num < sessionPushes

\* after a restart, an index the previous session had recorded found nothing
C10_Witness ==
    /\ cmdPc = "done"
    /\ starts_with(data, T_re_tx)
    /\ ReTxIndex(data) # Err
    /\ num = ReTxIndex(data)
    /\ num < prevLen
    /\ cmdTelemetry = None
    /\ state.streaming = TRUE

(* C11 as stated: within a session a record is appended at the end, by a   *)
(* later cycle than the record before it; time is non-decreasing in the    *)
(* index; and a cycle hands to the transport the record it has just        *)
(* pushed, so payloads are enqueued in index order with no gaps.           *)
C11_EmissionOrder ==
    [][ /\ (MainStepAt("push") /\ HasRoom(recording)) =>
              /\ recording' = Append(recording, telemetry)
              /\ lastPush # None => (LeqMs(lastPush[1], clock) /\ lastPush[1] # clock)
              /\ mainPc' = "send"
        /\ \A i \in 1..(Len(recording') - 1) :
              LeqMs(recording'[i].time, recording'[i + 1].time)
        /\ MainStepAt("send") =>
              /\ pushed
              /\ EnqueuesOne
              /\ Enqueued = <<peer_addr, as_bytes(telemetry, ZeroBuffer)>> ]_vars

(* C11 amended: the same, with time being the elapsed milliseconds         *)
(* truncated to 32 bits: it is non-decreasing in the index as long as the  *)
(* clock is below 2^32 ms, and the record at each index carries the low 32 *)
(* bits of the clock of its cycle.                                         *)
C11_EmissionOrderMod32 ==
    [][ /\ (MainStepAt("push") /\ HasRoom(recording)) =>
              /\ recording' = Append(recording, telemetry)
              /\ telemetry.time = AsU32(clock)
              /\ lastPush # None => (LeqMs(lastPush[1], clock) /\ lastPush[1] # clock)
              /\ (lastPush # None /\ recording # <<>>) =>
                    recording[Len(recording)].time = AsU32(lastPush[1])
              /\ mainPc' = "send"
        /\ clock'[1] < Half =>
              \A i \in 1..(Len(recording') - 1) :
                  LeqMs(recording'[i].time, recording'[i + 1].time)
        /\ MainStepAt("send") =>
              /\ pushed
              /\ EnqueuesOne
              /\ Enqueued = <<peer_addr, as_bytes(telemetry, ZeroBuffer)>> ]_vars

\* a session has recorded one cycle before the clock passed 2^32 ms and one
\* after it, and has handed the second to the transport
C11_Witness ==
    /\ mainPc = "end"
    /\ pushed
    /\ Len(recording) = 2
    /\ clock[1] >= Half
    /\ recording[1].time[1] = Half - 1
    /\ recording[2] = telemetry
    /\ data_queue # <<>>
    /\ from_bytes(data_queue[Len(data_queue)][2]) = recording[2]

(* C12: a cycle whose sensor read fails changes neither the altimeter      *)
(* stats (values, extrema, filter), nor the recording, nor State; it hands *)
(* nothing to the transport, holds no lock afterwards and leaves the loop  *)
(* at the start of the next cycle.                                         *)
C12_FailedReadSkipsCycle ==
    [][ (mainPc = "update" /\ mainPc' = "update" /\ clock' # clock) =>
            /\ stats' = stats
            /\ recording' = recording
            /\ state' = state
            /\ data_queue' = data_queue
            /\ sea_level_pressure' = sea_level_pressure
            /\ stateLock' = "free" ]_vars

\* of two cycles of a streaming session one has failed: the filter has seen
\* one sample, the recording holds one record
C12_Witness ==
    /\ mainPc = "update"
    /\ Explored(clock) = 2 * SleepMs
    /\ stats.kalman_state.n = 1
    /\ state.streaming
    /\ Len(recording) = 1

(* C13: a message that is not UTF-8 is taken from the channel and dropped, *)
(* and no step of an "inhg" or "re_tx" whose argument is missing or does   *)
(* not parse changes State, the recording, the reference pressure or the   *)
(* stats, or hands anything to the transport; the thread goes straight to  *)
(* the end of its loop body and from there to the next message.            *)
C13_MalformedDropped ==
    [][ /\ (cmdPc = "recv" /\ command_queue # <<>>
               /\ command_queue' = Tail(command_queue)
               /\ from_utf8(Head(command_queue)[2]) = None) =>
              /\ cmdPc' = "recv"
              /\ UNCHANGED <<state, recording, sea_level_pressure, stats, data_queue>>
        /\ (cmdPc # "recv" /\ cmdPc' # cmdPc /\ data \in MalformedTexts) =>
              /\ cmdPc' = IF cmdPc = "done" THEN "recv" ELSE "done"
              /\ UNCHANGED <<state, recording, sea_level_pressure, stats, data_queue>>
      ]_vars

\* a "re_tx" without a parseable index was dropped in a session that has a
\* record, a reference pressure set by "inhg" and stats of one sample or more
C13_Witness ==
    /\ cmdPc = "done"
    /\ data = T_re_tx \o <<" ", "x">>
    /\ recording # <<>>
    /\ sea_level_pressure = 100000
    /\ stats.kalman_state.n >= 1
    /\ state.streaming

(* C14: whatever collaborator fails, no thread ends: the sampling loop,    *)
(* the command thread and the transport thread are never stopped by a      *)
(* panic.                                                                  *)
C14_NoFailureIsFatal ==
    /\ mainPc # "panicked"
    /\ cmdPc # "panicked"
    /\ txPc # "panicked"

(* C15: a thread that is inside a blocking call holds no mutex.  The       *)
(* sampling loop is inside the sensor read or its sleep at "update" and    *)
(* inside the battery read at "battery"; the mutex of State is the one a   *)
(* thread holds from one step to the next, and only the sampling loop does.*)
C15_NoLockAcrossIO ==
    mainPc \in {"update", "battery"} => stateLock # "main"

(* C16: while the sampling loop is inside the sensor read, for however long,*)
(* the mutex of State is free, and each step of the command thread that    *)
(* takes that mutex ("ton", "toff", the send of "re_tx") can be taken; the *)
(* other steps take only locks that the sampling loop does not hold there. *)
(* A retransmission may have to wait for room in the channel, which the    *)
(* transport thread makes. No command waits for the sampling loop.         *)
C16_CommandsNotBlocked ==
    mainPc = "update" =>
        /\ stateLock = "free"
        /\ cmdPc = "ton_state" => ENABLED CmdTonState
        /\ cmdPc = "toff" => ENABLED CmdToff
        /\ cmdPc = "re_tx_send" => (ENABLED CmdReTxSend \/ ENABLED TxSendOk)

\* with the sampling loop inside the sensor read, a "re_tx" has found its
\* record under the recording lock and sent it under the State lock
C16_Witness ==
    /\ mainPc = "update"
    /\ cmdPc = "done"
    /\ starts_with(data, T_re_tx)
    /\ cmdTelemetry # None
    /\ data_queue # <<>>
    /\ stats.kalman_state.n >= 1

C18_InhgSetsReference ==
    [][ /\ (CmdStepAt("inhg") /\ InhgPressure(data) # None) =>
              sea_level_pressure' = InhgPressure(data)[1]
        /\ (cmdPc = "done" /\ starts_with(data, T_inhg) /\ InhgPressure(data) # None) =>
              sea_level_pressure = InhgPressure(data)[1]
        /\ sea_level_pressure' # sea_level_pressure =>
              (CmdStepAt("inhg") /\ InhgPressure(data) # None)
        /\ stats'.kalman_state.n = stats.kalman_state.n + 1 =>
              /\ stats'.altitude =
                    calc_altitude(stats'.filtered_pressure, sea_level_pressure)
              /\ sea_level_pressure \in
                    {InitialSeaLevel}
                        \cup {InhgPressure(t)[1] :
                                t \in {u \in AltimeterTexts : starts_with(u, T_inhg)
                                                             /\ InhgPressure(u) # None}}
      ]_vars

\* an update has used the initial sea level pressure, and a later one the
\* pressure of "inhg 100000"
C18_Witness ==
    /\ sea_level_pressure = 100000
    /\ stats.kalman_state.n >= 2
    /\ stats.altitude = 0
    /\ stats.maximum_altitude = 555

(* C19: "reset" leaves the stats at their defaults and the filter at its   *)
(* seed with n = 0, and the update that follows it leaves minimum =        *)
(* maximum = current for altitude, temperature and pressure.               *)
C19_ResetThenFreshExtrema ==
    [][ /\ CmdStepAt("reset") =>
              /\ stats' = DefaultStats
              /\ stats'.kalman_state = KalmanNew(SeedP, SeedX)
        /\ (cmdPc = "done" /\ data = T_reset /\ stats = DefaultStats
               /\ stats'.kalman_state.n = 1) =>
              /\ stats'.minimum_altitude = stats'.altitude
              /\ stats'.maximum_altitude = stats'.altitude
              /\ stats'.minimum_temperature = stats'.temperature
              /\ stats'.maximum_temperature = stats'.temperature
              /\ stats'.minimum_pressure = stats'.pressure
              /\ stats'.maximum_pressure = stats'.pressure ]_vars

(* C20: once a sample has been taken since creation or the last reset,     *)
(* minimum <= current <= maximum for altitude, temperature and pressure.   *)
C20_ExtremaBracketCurrent ==
    stats.kalman_state.n >= 1 =>
        /\ f64_le(stats.minimum_altitude, stats.altitude)
        /\ f64_le(stats.altitude, stats.maximum_altitude)
        /\ f64_le(stats.minimum_temperature, stats.temperature)
        /\ f64_le(stats.temperature, stats.maximum_temperature)
        /\ f64_le(stats.minimum_pressure, stats.pressure)
        /\ f64_le(stats.pressure, stats.maximum_pressure)

(* C21: a valid UTF-8 text that starts with none of "tone", "ton", "toff",  *)
(* "re_tx", "inhg", "reset" (a command in capitals or after a space is     *)
(* one) is inert: the thread takes it from the channel, goes straight to   *)
(* the end of its loop body and on to the next message, and no step of it  *)
(* changes State, the recording, the sea level pressure, the stats or the  *)
(* buzzer, or hands anything to the transport.                             *)
C21_UnrecognizedIsInert ==
    [][ /\ (cmdPc = "recv" /\ command_queue # <<>>
               /\ command_queue' = Tail(command_queue)
               /\ Head(command_queue)[2] \in InertTexts) =>
              /\ cmdPc' = "done"
              /\ data' = Head(command_queue)[2]
              /\ UNCHANGED <<state, recording, sea_level_pressure, stats, buzzer,
                             data_queue>>
        /\ (cmdPc # "recv" /\ cmdPc' # cmdPc
               /\ \A j \in 1..Len(Prefixes) : ~starts_with(data, Prefixes[j])) =>
              /\ cmdPc = "done"
              /\ cmdPc' = "recv"
              /\ UNCHANGED <<state, recording, sea_level_pressure, stats, buzzer,
                             data_queue>> ]_vars

\* "TON" was taken from the channel in a streaming session of the first
\* sender that has a record: the session is as it was
C21_Witness ==
    /\ cmdPc = "done"
    /\ data = <<"T", "O", "N">>
    /\ mac_arr = "mac2"
    /\ state = [telemetry_addr |-> Some("mac1"), streaming |-> TRUE]
    /\ recording # <<>>
    /\ stats.kalman_state.n >= 1

(* C22: the transport thread sends to an address only when that address is *)
(* a peer of the radio: an iteration that sends to A has registered A if   *)
(* it was not a peer and has left the peers alone if it was, so A is a     *)
(* peer when the send is issued; no other step changes the peers, and an   *)
(* iteration whose peer check fails sends nothing.                         *)
C22_SendsOnlyToPeers ==
    [][ /\ (txPc = "run" /\ txPc' = "run" /\ data_queue # <<>>
               /\ data_queue' = Tail(data_queue)) =>
              /\ Head(data_queue)[1] \in peers'
              /\ peers' = peers \cup {Head(data_queue)[1]}
        /\ peers' # peers =>
              (txPc = "run" /\ data_queue # <<>> /\ data_queue' = Tail(data_queue))
        /\ txPc' = "panicked" => peers' = peers ]_vars

\* the transport has sent to both ground stations, registering the second
\* when the first was a peer already
C22_Witness ==
    /\ peers = {"mac1", "mac2"}
    /\ data_queue = <<>>
    /\ txPc = "run"

(* C23: the record decoded from the bytes as_bytes produced is the record   *)
(* that was encoded, in each of its four fields (an f32 being its bit      *)
(* pattern), whatever the caller's buffer held.                            *)
C23_CodecRoundTrip ==
    (bsPc = "recv" /\ bsTelemetry # None) =>
        /\ bsTelemetry[1].time = encRecord.time
        /\ bsTelemetry[1].altitude = encRecord.altitude
        /\ bsTelemetry[1].temperature = encRecord.temperature
        /\ bsTelemetry[1].battery_voltage = encRecord.battery_voltage

\* a record with a time above 2^31 and a negative altitude came back from
\* a buffer of exactly 16 bytes
C23_Witness ==
    /\ bsPc = "recv"
    /\ Len(bsData) = RecordLen
    /\ bsTelemetry = Some(encRecord)
    /\ encRecord.time = <<Half - 1, Half - 600>>
    /\ encRecord.altitude = AsF32(-557)

(* C24: the decoding of a frame shorter than 16 bytes returns an error to  *)
(* the callback, which drops the frame and waits for the next one.         *)
C24_ShortFrameDropped ==
    [][ (bsPc = "decode" /\ Len(bsData) < RecordLen) =>
            (bsPc' = "recv" /\ bsTelemetry' = bsTelemetry) ]_vars

(* C25: decoding reads the first 16 bytes and ignores the rest: the record *)
(* decoded from a longer frame is the one decoded from its first 16 bytes, *)
(* whatever follows them, and a 33-byte payload decodes to the record that *)
(* was encoded into it.                                                    *)
C25_TrailingBytesIgnored ==
    (bsPc = "recv" /\ bsTelemetry # None /\ Len(bsData) > RecordLen) =>
        /\ bsTelemetry[1] = from_bytes(SubSeq(bsData, 1, RecordLen))
        /\ \A b \in CodecBuffers :
              from_bytes(SubSeq(bsData, 1, RecordLen) \o b) = bsTelemetry[1]
        /\ Len(bsData) = BufferLen => bsTelemetry[1] = encRecord

\* a 33-byte payload whose last 17 bytes are not zero was decoded
C25_Witness ==
    /\ bsPc = "recv"
    /\ Len(bsData) = BufferLen
    /\ bsData[BufferLen] # 0
    /\ bsTelemetry = Some(encRecord)
    /\ encRecord.altitude = AsF32(555)

(* C26: as_bytes writes 16 bytes: time at offsets 0..3, altitude at 4..7,  *)
(* temperature at 8..11, battery voltage at 12..15, each with its least    *)
(* significant byte first; the buffer keeps its length and every byte from *)
(* offset 16 on.                                                           *)
C26_EncodingLayout ==
    [][ (bsPc = "recv" /\ bsPc' = "decode" /\ Len(bsData') >= RecordLen) =>
            /\ \A k \in 0..3 :
                  /\ bsData'[1 + k] = ByteAt(encRecord'.time, k)
                  /\ bsData'[5 + k] = ByteAt(encRecord'.altitude, k)
                  /\ bsData'[9 + k] = ByteAt(encRecord'.temperature, k)
                  /\ bsData'[13 + k] = ByteAt(encRecord'.battery_voltage, k)
            /\ Len(bsData') = Len(encBuffer')
            /\ \A i \in (RecordLen + 1)..Len(encBuffer') :
                  bsData'[i] = encBuffer'[i] ]_vars

\* time 0x00010002 was written as 02 00 01 00 over a buffer whose other
\* bytes are as they were
C26_Witness ==
    /\ bsPc = "decode"
    /\ encRecord.time = <<1, 2>>
    /\ SubSeq(bsData, 1, 4) = <<2, 0, 1, 0>>
    /\ Len(bsData) = BufferLen
    /\ bsData[RecordLen + 1] = 255 - (RecordLen + 1)

(* C27: on a constant stream an update leaves the estimate between the     *)
(* previous estimate and the measurement, never beyond it, and closer to   *)
(* the measurement as long as the two differ by more than the model        *)
(* resolves (the estimate is followed to the tenth of a pascal and a       *)
(* product is cut to whole tenths: 2 tenths); after 10 samples the         *)
(* estimate is at the measurement, to those 2 tenths.                      *)
(* The variance stays positive and an update makes it strictly smaller,    *)
(* until it rests at a value between the process noise and the             *)
(* measurement noise, where an update takes off what the process noise     *)
(* adds.                                                                   *)
C27_KalmanConverges ==
    [][ (kalman'.n = kalman.n + 1 /\ stream' = stream) =>
            /\ kalman.x <= stream => (kalman.x <= kalman'.x /\ kalman'.x <= stream)
            /\ kalman.x >= stream => (kalman.x >= kalman'.x /\ kalman'.x >= stream)
            /\ Dist(kalman.x, stream) > 2 =>
                  Dist(kalman'.x, stream) < Dist(kalman.x, stream)
            /\ kalman'.n >= 10 => Dist(kalman'.x, stream) <= 2
            /\ kalman'.p > 0
            /\ kalman'.p <= kalman.p
            /\ kalman'.p = kalman.p =>
                  /\ NoiseQ < kalman'.p
                  /\ kalman'.p < NoiseR
                  /\ KalmanUpdate(kalman', NoiseR, stream, NoiseQ).p = kalman'.p
            /\ kalman'.next_x = kalman'.x
            /\ kalman'.next_p = kalman'.p + NoiseQ ]_vars

\* on the stream of 100000 Pa the estimate has come up from its seed to
\* the measurement and the variance has come to rest
C27_Witness ==
    /\ stream = 100000 * Deci
    /\ kalman.n = MaxSamples
    /\ kalman.x = stream
    /\ kalman.p < NoiseR \div 2
    /\ KalmanUpdate(kalman, NoiseR, stream, NoiseQ).p = kalman.p

(* C28: whatever the sea level pressure is, the altitude of a pressure     *)
(* equal to it is 0, and of two pressures the higher has the strictly      *)
(* lower altitude.                                                         *)
C28_AltitudeFormula ==
    /\ calc_altitude(sea_level_pressure, sea_level_pressure) = 0
    /\ \A p1, p2 \in TablePressures :
          p1 < p2 => f64_lt(calc_altitude(p2, sea_level_pressure),
                            calc_altitude(p1, sea_level_pressure))

(* C29: once "toff" has been processed the sampling loop pushes no record  *)
(* and hands no payload to the transport until a "ton" is processed:       *)
(* "toff" is processed while no cycle is between its look at State and its *)
(* end; a cycle pushes and hands over only while streaming is true; and    *)
(* after a "toff" streaming becomes true again only when a "ton" command   *)
(* is processed.                                                           *)
C29_NoEmissionAfterToff ==
    [][ /\ CmdStepAt("toff") =>
              (mainPc \in {"update", "lock"} /\ state'.streaming = FALSE)
        /\ (MainStepAt("push") \/ MainStepAt("send")) =>
              (state.streaming /\ state'.streaming /\ stateLock = "main")
        /\ (Len(recording') > Len(recording)
               \/ (Len(data_queue') > Len(data_queue) /\ ~CmdStepAt("re_tx_send"))) =>
              (MainStepAt("push") \/ MainStepAt("send"))
        /\ (lastTon # None /\ ~state.streaming /\ state'.streaming) =>
              (CmdStepAt("ton_state") /\ ~starts_with(data, T_tone)) ]_vars

(* C30: there is one peer at a time, the sender of the last "ton" command  *)
(* processed: the sampling loop addresses a payload to the telemetry_addr  *)
(* of the moment; a "ton" is processed while no cycle holds a copy of the  *)
(* previous address; and in a session telemetry_addr changes only when a   *)
(* "ton" command is processed, to the sender of that command.              *)
C30_OneActivePeer ==
    [][ /\ (MainStepAt("send") /\ Len(data_queue') > Len(data_queue)) =>
              /\ EnqueuesOne
              /\ Enqueued[1] = state.telemetry_addr[1]
              /\ state.telemetry_addr = lastTon
        /\ CmdStepAt("ton_state") =>
              (mainPc \in {"update", "lock"} /\ state'.telemetry_addr = Some(mac_arr))
        /\ (state.telemetry_addr # None
               /\ state'.telemetry_addr # state.telemetry_addr) =>
              (CmdStepAt("ton_state") /\ ~starts_with(data, T_tone)) ]_vars

(* C31: a cycle that finds the recording full pushes nothing and hands     *)
(* nothing to the transport, with streaming true and a peer set; a cycle   *)
(* hands over only what it has pushed; a full recording gets room again    *)
(* only when a "ton" command clears it; and the first cycle after the      *)
(* clear records at index 0 and goes on to hand its record over.           *)
C31_FullStopsEmission ==
    [][ /\ (MainStepAt("push") /\ Len(recording) = Capacity) =>
              /\ state.streaming /\ state.telemetry_addr # None
              /\ mainPc' = "end"
              /\ recording' = recording
              /\ data_queue' = data_queue
        /\ MainStepAt("send") => pushed
        /\ (Len(recording) = Capacity /\ recording' # recording) =>
              /\ CmdStepAt("ton")
              /\ ~starts_with(data, T_tone)
              /\ recording' = <<>>
        /\ (MainStepAt("push") /\ recording = <<>>) =>
              (recording' = <<telemetry>> /\ mainPc' = "send") ]_vars

(* C32: no step of the processing of a "reset" changes the recording,      *)
(* State (the peer and streaming), the sea level pressure, the buzzer or   *)
(* the channel to the transport; its one effect is that the stats, the     *)
(* filter included, are at their defaults.                                 *)
C32_ResetOnlyResetsStats ==
    [][ /\ (cmdPc # "recv" /\ cmdPc' # cmdPc /\ starts_with(data, T_reset)) =>
              /\ UNCHANGED <<state, recording, sea_level_pressure, buzzer, data_queue>>
              /\ cmdPc = "reset" => (stats' = DefaultStats /\ cmdPc' = "done")
              /\ cmdPc # "reset" => (stats' = stats /\ cmdPc = "done")
        /\ (cmdPc = "recv" /\ cmdPc' # "recv" /\ starts_with(data', T_reset)) =>
              (cmdPc' = "reset"
               /\ UNCHANGED <<state, recording, sea_level_pressure, buzzer,
                              data_queue, stats>>) ]_vars

\* "reset" was processed in a streaming session that has a record, a sea
\* level pressure set by "inhg" and stats of a sample: only the stats went
\* back to their defaults
C32_Witness ==
    /\ cmdPc = "done"
    /\ data = T_reset
    /\ stats = DefaultStats
    /\ clock # U32Zero
    /\ recording # <<>>
    /\ state = [telemetry_addr |-> Some("mac1"), streaming |-> TRUE]
    /\ sea_level_pressure = 100000

(* C33: an iteration of the transport thread takes the message at the     *)
(* head of the channel and makes its one send; the message is gone from    *)
(* the channel whether the send succeeded or failed, so no message is sent *)
(* twice; messages are appended at the end, so they are sent in the order  *)
(* they were handed over; and after a failed send the thread is running    *)
(* and the next message, if any, is at the head.                           *)
C33_OneSendPerMessage ==
    [][ /\ (Len(data_queue') < Len(data_queue) \/ peers' # peers
               \/ (sendFailed' /\ ~sendFailed)) =>
              /\ data_queue # <<>>
              /\ data_queue' = Tail(data_queue)
              /\ peers' = peers \cup {Head(data_queue)[1]}
              /\ txPc' = "run"
        /\ Len(data_queue') >= Len(data_queue) =>
              SubSeq(data_queue', 1, Len(data_queue)) = data_queue
        /\ Len(data_queue') <= Len(data_queue) + 1 ]_vars

\* the send of the first of three messages failed: the two behind it are
\* waiting, the one for the second ground station at their head
C33_Witness ==
    /\ sendFailed
    /\ txPc = "run"
    /\ peers = {"mac1"}
    /\ Len(data_queue) = MaxBacklog - 1
    /\ data_queue[1][1] = "mac2"
    /\ data_queue[2] # data_queue[1]


(***************************************************************************)
(* C34: the alert of "tone" is one-shot: after the command thread has      *)
(* called once() and start() for one "tone", and made no further call, the *)
(* buzzer thread plays the pattern exactly once, and once it has played    *)
(* and finished that pass, playing and once are both false.                *)
(***************************************************************************)
C34_OneShot ==
    tones = 1 =>
        /\ plays <= 1
        /\ (tonePc = "once" /\ plays = 1 /\ bzPc \in {"sleep", "read"}) =>
               buzzer = [once |-> FALSE, playing |-> FALSE]

(***************************************************************************)
(* C35: when a "ton" of a sender S is processed while streaming is active  *)
(* for another peer, the recording holds, once the command has completed,  *)
(* no record that was produced for the previous peer: the command leaves   *)
(* the recording empty, as if the clear and the update of the state were   *)
(* one step.                                                               *)
(***************************************************************************)
C35_SessionPurity ==
    [][ (/\ CmdStepAt("ton_state")
         /\ state.streaming
         /\ state.telemetry_addr # Some(mac_arr)) =>
            recording' = <<>> ]_vars

(***************************************************************************)
(* C36: a record the sampling loop emits carries the altitude and the      *)
(* temperature of the successful update of the same cycle: whatever the    *)
(* command thread does between the update and the snapshot, the snapshot   *)
(* taken for a record is never the default stats, which no update leaves   *)
(* behind.                                                                 *)
(***************************************************************************)
C36_EmitsUpdatedStats ==
    [][ (MainStepAt("lock") /\ mainPc' = "battery") =>
            snapshot' # DefaultStats ]_vars

\* the mutexes thread t holds
Held(t) == {m \in Mutexes : locks[m] = t}

(***************************************************************************)
(* C37: the loops never deadlock on the four mutexes.  The sampling loop   *)
(* nests only state then recording, and stats then sea level pressure; the *)
(* command thread holds at most one mutex at a time, so it never takes     *)
(* them in the opposite order; and in every state at least one of the two  *)
(* threads can take its next step.  The transport thread takes no mutex.   *)
(***************************************************************************)
C37_NoDeadlock ==
    /\ Held("main") \in { {}, {"stats"}, {"stats", "sea_level_pressure"},
                          {"state"}, {"state", "recording"} }
    /\ Cardinality(Held("cmd")) <= 1
    /\ (ENABLED SamplingLocks) \/ (ENABLED CommandLocks)

\* the sampling loop holds State and waits for the recording, which the
\* command thread holds for the clear of a "ton"
C37_Witness ==
    /\ Emits(state)
    /\ lockPc = [main |-> "streaming", cmd |-> "ton_clear"]
    /\ locks["state"] = "main"
    /\ locks["recording"] = "cmd"

(***************************************************************************)
(* C38: in every reachable state, streaming implies that the peer is set:  *)
(* "ton" sets both together and nothing clears the peer.                   *)
(***************************************************************************)
C38_StreamingHasPeer == state.streaming => state.telemetry_addr # None

\* streaming for the sender of a second "ton", with records pushed since
C38_Witness ==
    /\ state.streaming
    /\ state.telemetry_addr = Some("mac1")
    /\ data = T_ton
    /\ cmdPc = "done"
    /\ prevLen > 0
    /\ recording # <<>>

(***************************************************************************)
(* C39: when the ground station receives a telemetry packet, every client  *)
(* whose receiver lives is sent that telemetry exactly once, every client  *)
(* whose receiver is gone is removed, and the clients that remain keep     *)
(* their order: the list after the pass is the live clients of the list    *)
(* before it, each with the telemetry appended once to what it holds.      *)
(***************************************************************************)
C39_FanOut ==
    [][ (bsPc = "decode" /\ bsPc' = "recv") =>
            LET t == from_bytes(bsData)
                live == SelectSeq(clients, LAMBDA c : c.connected)
            IN  /\ Len(clients') = Len(live)
                /\ \A k \in 1..Len(live) :
                      clients'[k] = [live[k] EXCEPT !.inbox = Append(@, t)]
      ]_vars

\* the second client was removed by a pass, and the one added after it
\* holds a record beside the draw loop
C39_Witness ==
    /\ bsPc = "recv"
    /\ Len(clients) = 2
    /\ clients[1].id = 1 /\ clients[1].inbox # <<>>
    /\ clients[2].id = 3 /\ clients[2].inbox # <<>>

(***************************************************************************)
(* C40: on_click of a button fires exactly once per release of the touch,  *)
(* and only when the touch goes from down to up with the last position     *)
(* recorded while it was down inside the bounding box of the button; no    *)
(* other sample and no other step fires it, so a touch dragged out of the  *)
(* button before the release does not click it.                            *)
(***************************************************************************)
C40_ClickOnRelease ==
    [][ \A i \in 1..Len(elements) :
          LET released == /\ touches' # touches
                          /\ touch_state.status = "Down"
                          /\ touch_state'.status = "Up"
              inside == bounding_box_contains(
                            elements[i], <<touch_state.x, touch_state.y>>)
          IN  elements'[i].clicks =
                  elements[i].clicks + (IF released /\ inside THEN 1 ELSE 0)
      ]_vars

\* after a drawing, a touch went down in TON, was dragged into TOFF and
\* released there: TOFF was clicked once and TON was not
C40_Witness ==
    /\ touch_state.status = "Up"
    /\ elements[1].dirty /\ ~elements[1].hover /\ elements[1].clicks = 0
    /\ elements[2].clicks = 1
    /\ ~elements[3].dirty

============================================================================
